---------------------------- MODULE Spec2Model ----------------------------
(***************************************************************************)
(* A model of consolekit: the command registry (pkg/command/registry.go),  *)
(* the completion builder and the completion tree built from it, and the   *)
(* token-budgeted context manager of the AI add-on (pkg/intel/context.go). *)
(*                                                                         *)
(* Strings whose letter case matters (command names) are sequences of      *)
(* one-letter strings, so that strings.ToLower is a real conversion.       *)
(* float64 relevance scores are exact rationals [n, d] in lowest terms.    *)
(* The wall clock advances in units of ClockUnitMinutes minutes.           *)
(***************************************************************************)
EXTENDS Integers, Sequences, FiniteSets, TLC

VARIABLES
    \* ---- command.Registry and its caller ----
    commands,       \* Registry.commands: map key -> Command
    lastCall,       \* the last Registry call: its operation, name and args
    invoked,        \* the handler invocation the last call made, or NoCall
    ret,            \* what the last call returned
    \* ---- command.CompletionBuilder ----
    cb,             \* the builder: its completions and flags maps
    cbOp,           \* the last builder method called
    \* ---- the completer of Console.Run and the user at the prompt ----
    completer,      \* the readline prefix tree BuildCompleter returned
    completeCalls,  \* the argument lists Completer.Complete was called with
    line,           \* the words typed so far on the line being edited
    offered,        \* the candidates offered at the last completion request
    compOp,         \* the last step at the prompt
    \* ---- intel.ContextManager ----
    items,          \* ContextManager.items
    currentTokens,  \* ContextManager.currentTokens
    maxTokens,      \* ContextManager.maxTokens
    now,            \* time.Now(), in units of ClockUnitMinutes minutes
    ops,            \* number of ContextManager calls made so far
    passes,         \* number of relevance-aging passes run so far
    ctxOp,          \* the last ContextManager operation, with its arguments
    pass,           \* the optimize pass the last operation ran, if any
    qm,             \* IntelSystem.queryModel: the query in progress, attempt by attempt
    sel,            \* ModelManager.AutoSelectModel: the last call, its inputs and its result
    con,            \* Console.Run: where the loop is, the last read and the last report
    state,          \* config.State: its map, its lock and the calls in progress
    config,         \* config.Config: its map and the calls in progress
    spinner,        \* output.ProgressSpinner: its fields, its caller and its spin goroutine
    counter,        \* output.ProgressCounter: its fields, its caller and its display goroutine
    om,             \* intel.OllamaManager, the call of EnsureOllamaAvailable in progress, and the service
    intel,          \* intel.IntelSystem: config.ContextDepth, context.RecentActions and the history fragment
    util,           \* utils.MaskString and utils.GenerateCaseVariations: the last call and its result
    cfg,            \* config.Config saved to and loaded from a YAML file: the saving Config, the file, the loading Config
    prompt,         \* ContextManager.BuildPrompt: the calls made so far and what the last one returned
    sys,            \* intel.IntelSystem: the initialized flag, the last call and the model requests issued
    ind             \* output.ProgressSpinner / ProgressCounter: isRunning, the done channel's parties, each caller's position

regVars == <<commands, lastCall, invoked, ret>>
cbVars == <<cb, cbOp>>
compVars == <<completer, completeCalls, line, offered, compOp>>
ctxVars == <<items, currentTokens, maxTokens, now, ops, passes, ctxOp, pass>>
extVars == <<qm, sel, con, state, config, spinner, counter, om, intel, util, cfg, prompt, sys, ind>>
vars == <<regVars, cbVars, compVars, ctxVars, extVars>>

\* What a step of one component leaves alone.
notReg == <<cbVars, compVars, ctxVars, extVars>>
notCb == <<regVars, compVars, ctxVars, extVars>>
notComp == <<regVars, cbVars, ctxVars, extVars>>
notCtx == <<regVars, cbVars, compVars, extVars>>
restQm == <<sel, con, state, config, spinner, counter, om, intel, util, cfg, prompt, sys, ind>>
notQm == <<regVars, cbVars, compVars, ctxVars, restQm>>
restSel == <<qm, con, state, config, spinner, counter, om, intel, util, cfg, prompt, sys, ind>>
notSel == <<regVars, cbVars, compVars, ctxVars, restSel>>
restCon == <<qm, sel, state, config, spinner, counter, om, intel, util, cfg, prompt, sys, ind>>
notCon == <<regVars, cbVars, compVars, ctxVars, restCon>>
restState == <<qm, sel, con, config, spinner, counter, om, intel, util, cfg, prompt, sys, ind>>
notState == <<regVars, cbVars, compVars, ctxVars, restState>>
restConfig == <<qm, sel, con, state, spinner, counter, om, intel, util, cfg, prompt, sys, ind>>
notConfig == <<regVars, cbVars, compVars, ctxVars, restConfig>>
restSpinner == <<qm, sel, con, state, config, counter, om, intel, util, cfg, prompt, sys, ind>>
notSpinner == <<regVars, cbVars, compVars, ctxVars, restSpinner>>
restCounter == <<qm, sel, con, state, config, spinner, om, intel, util, cfg, prompt, sys, ind>>
notCounter == <<regVars, cbVars, compVars, ctxVars, restCounter>>
restOm == <<qm, sel, con, state, config, spinner, counter, intel, util, cfg, prompt, sys, ind>>
notOm == <<regVars, cbVars, compVars, ctxVars, restOm>>
restIntel == <<qm, sel, con, state, config, spinner, counter, om, util, cfg, prompt, sys, ind>>
notIntel == <<regVars, cbVars, compVars, ctxVars, restIntel>>
restUtil == <<qm, sel, con, state, config, spinner, counter, om, intel, cfg, prompt, sys, ind>>
notUtil == <<regVars, cbVars, compVars, ctxVars, restUtil>>
restCfg == <<qm, sel, con, state, config, spinner, counter, om, intel, util, prompt, sys, ind>>
notCfg == <<regVars, cbVars, compVars, ctxVars, restCfg>>
restPrompt == <<qm, sel, con, state, config, spinner, counter, om, intel, util, cfg, sys, ind>>
notPrompt == <<regVars, cbVars, compVars, ctxVars, restPrompt>>
restSys == <<qm, sel, con, state, config, spinner, counter, om, intel, util, cfg, prompt, ind>>
notSys == <<regVars, cbVars, compVars, ctxVars, restSys>>
restInd == <<qm, sel, con, state, config, spinner, counter, om, intel, util, cfg, prompt, sys>>
notInd == <<regVars, cbVars, compVars, ctxVars, restInd>>

---------------------------------------------------------------------------
(* Bounds of the model. *)

MaxCommands == 2      \* commands held by a registry
MaxLine == 2          \* words typed on one line
MaxClock == 1         \* clock ticks (of ClockUnitMinutes minutes each)
MaxOps == 3           \* ContextManager calls in one run
MaxPasses == 2        \* relevance-aging passes in one run

---------------------------------------------------------------------------
(* Exact rationals, standing for the float64 relevance scores. *)

RECURSIVE GCD(_, _)
GCD(a, b) == IF b = 0 THEN a ELSE GCD(b, a % b)

Abs(x) == IF x < 0 THEN -x ELSE x

Rat(n, d) ==
    LET g == GCD(Abs(n), Abs(d))
        s == IF d < 0 THEN -1 ELSE 1
    IN  IF n = 0 THEN [n |-> 0, d |-> 1]
        ELSE [n |-> s * (n \div g), d |-> s * (d \div g)]

RatOne == Rat(1, 1)

RatMul(x, y) ==
    LET g1 == GCD(Abs(x.n), y.d)
        g2 == GCD(Abs(y.n), x.d)
    IN  Rat((x.n \div g1) * (y.n \div g2), (x.d \div g2) * (y.d \div g1))

RatSub(x, y) ==
    LET g == GCD(x.d, y.d)
    IN  Rat(x.n * (y.d \div g) - y.n * (x.d \div g), (x.d \div g) * y.d)

\* x < y
RatLess(x, y) ==
    LET g == GCD(x.d, y.d)
    IN  x.n * (y.d \div g) < y.n * (x.d \div g)

---------------------------------------------------------------------------
(* Words.  A word is a sequence of chunks of text; the one-letter chunks   *)
(* of UpperCase are the upper-case letters of the words whose letter case  *)
(* matters.                                                                *)

W(text) == <<text>>

UpperCase == {"A", "B", "C", "E", "F", "H", "Q"}
LowerOf(c) ==
    CASE c = "A" -> "a" [] c = "B" -> "b" [] c = "C" -> "c" [] c = "E" -> "e"
      [] c = "F" -> "f" [] c = "H" -> "h" [] c = "Q" -> "q"
      [] OTHER -> c

\* strings.ToLower
ToLower(w) == [i \in 1..Len(w) |-> LowerOf(w[i])]

\* strings.Contains(s, sub)
Contains(s, sub) ==
    \E i \in 1..(Len(s) - Len(sub) + 1) : SubSeq(s, i, i + Len(sub) - 1) = sub

Range(f) == {f[x] : x \in DOMAIN f}

EmptyMap == <<>>

\* m[k] = v of a Go map
MapPut(m, k, v) == [x \in DOMAIN m \cup {k} |-> IF x = k THEN v ELSE m[x]]

---------------------------------------------------------------------------
(* Handlers: the commands of the examples.                                 *)

TestCommand == "TestCommand"          \* implements Completer
DiscoverCommand == "DiscoverCommand"
SetCommand == "SetCommand"
NilHandler == "nil"                   \* a nil Handler

\* Handler.Execute(args): what the handler returns.
HandlerExecute(h, args) ==
    CASE h = NilHandler -> [kind |-> "panic", msg |-> <<"nil pointer dereference">>]
      [] h = SetCommand ->
            IF Len(args) # 2
            THEN [kind |-> "error", msg |-> <<"usage: set <key> <value>">>]
            ELSE [kind |-> "nil", msg |-> <<>>]
      [] OTHER -> [kind |-> "nil", msg |-> <<>>]

\* cmd.Handler.(Completer)
ImplementsCompleter(h) == h = TestCommand

\* TestCommand.Complete(args, cursorPos) of the completion demo.
TestCommandComplete(args) ==
    CASE Len(args) = 0 ->
            <<W("sql"), W("xss"), W("nosql"), W("ldap"), W("command"), W("xxe"),
              W("ssrf")>>
      [] Len(args) = 1 ->
            CASE args[1] = W("sql") ->
                    <<W("union"), W("boolean"), W("time"), W("error")>>
              [] args[1] = W("xss") -> <<W("reflected"), W("stored"), W("dom")>>
              [] args[1] = W("nosql") -> <<W("mongodb"), W("couchdb"), W("redis")>>
              [] OTHER -> <<W("--target"), W("--threads"), W("--timeout")>>
      [] Len(args) = 2 ->
            CASE args[2] = W("--threads") ->
                    <<W("1"), W("5"), W("10"), W("20"), W("50")>>
              [] args[2] = W("--timeout") ->
                    <<W("30"), W("60"), W("120"), W("300")>>
              [] args[2] = W("--target") ->
                    <<W("http://example.com"), W("https://api.example.com")>>
              [] OTHER -> <<W("--verbose"), W("--quiet"), W("--output")>>
      [] OTHER -> <<W("--verbose"), W("--quiet"), W("--output"), W("--format")>>

---------------------------------------------------------------------------
(* command.Registry (pkg/command/registry.go).                             *)

NewCommand(name, handler, completions) ==
    [Name |-> name, Handler |-> handler, Completions |-> completions]

\* The error of Execute for a name it does not find.
UnknownCommandErrorLowered(name) ==
    [kind |-> "error",
     msg |-> <<"unknown command: ">> \o ToLower(name)
                \o <<". Type 'help' for a list of commands">>]

UnknownCommandError(name) ==
    [kind |-> "error",
     msg |-> <<"unknown command: ">> \o name
                \o <<". Type 'help' for a list of commands">>]

\* The key Execute and GetCommand look a name up under.
LookupKey(name) == ToLower(name)

\* What is recorded of a call: for Execute, also the registry it found.
CallOf(op, name, args) ==
    [op |-> op, name |-> name, args |-> args,
     registry |-> IF op = "Execute" THEN commands ELSE EmptyMap]

\* Register(name, handler, description): the key is the name as given.
Register(name, handler) ==
    /\ Cardinality(DOMAIN commands \cup {name}) <= MaxCommands
    /\ commands' = MapPut(commands, name, NewCommand(name, handler, EmptyMap))
    /\ lastCall' = CallOf("Register", name, <<>>)
    /\ invoked' = <<>>
    /\ ret' = [kind |-> "nil", msg |-> <<>>]
    /\ UNCHANGED notReg

\* Execute(name, args)
Execute(name, args) ==
    LET key == LookupKey(name)
    IN  /\ lastCall' = CallOf("Execute", name, args)
        /\ UNCHANGED <<commands, notReg>>
        /\ IF key \notin DOMAIN commands
           THEN /\ invoked' = <<>>
                /\ ret' = UnknownCommandError(name)
           ELSE /\ invoked' = <<[handler |-> commands[key].Handler, args |-> args]>>
                /\ ret' = HandlerExecute(commands[key].Handler, args)

\* Inputs of the model: two commands in each of their letter cases.
RegNames ==
    {<<"a">>, <<"A">>, <<"a", "b">>, <<"A", "b">>, <<"a", "B">>, <<"A", "B">>}
RegHandlers == {TestCommand, SetCommand, NilHandler}
CallArgs == {<<>>, <<W("key"), W("value")>>}

RegNext ==
    \/ \E n \in RegNames, h \in RegHandlers : Register(n, h)
    \/ \E n \in RegNames, a \in CallArgs : Execute(n, a)

---------------------------------------------------------------------------
(* command.CompletionBuilder.                                              *)

\* A Go map that may be nil.
NilMap == [isNil |-> TRUE, m |-> EmptyMap]
MadeMap(m) == [isNil |-> FALSE, m |-> m]

NoGenerator == "nil"
BoolCompletion == "BoolCompletion"
FileCompletion == "FileCompletion"

\* What a generator returns when called.
Generate(g) ==
    CASE g = BoolCompletion ->
            <<W("true"), W("false"), W("yes"), W("no"), W("on"), W("off")>>
      [] g = FileCompletion -> <<W("file1.txt"), W("file2.json"), W("config.yaml")>>
      [] OTHER -> <<>>

NewCompletionBuilder == [completions |-> EmptyMap, flags |-> EmptyMap]

AddPositionTo(b, pos, options) ==
    [b EXCEPT !.completions =
        MapPut(@, pos, [Position |-> pos, Options |-> options,
                        Dynamic |-> NoGenerator, Flags |-> NilMap])]

AddDynamicPositionTo(b, pos, generator) ==
    [b EXCEPT !.completions =
        MapPut(@, pos, [Position |-> pos, Options |-> <<>>,
                        Dynamic |-> generator, Flags |-> NilMap])]

AddFlagTo(b, flag, options) == [b EXCEPT !.flags = MapPut(@, flag, options)]

AddDynamicFlagTo(b, flag, generator) ==
    [b EXCEPT !.flags = MapPut(@, flag, Generate(generator))]

\* The flags map of an entry after Build has copied fl into it.
WithFlags(entryFlags, fl) ==
    LET m == IF entryFlags.isNil THEN EmptyMap ELSE entryFlags.m
    IN  MadeMap([f \in DOMAIN m \cup DOMAIN fl |->
                    IF f \in DOMAIN fl THEN fl[f] ELSE m[f]])

\* Build without the write-back cb.completions[pos] = completion: a flags map
\* made for an entry that had none is lost with the loop's copy of the entry.
BuildLosingCopies(b) ==
    [b EXCEPT !.completions =
        [pos \in DOMAIN b.completions |->
            IF b.completions[pos].Flags.isNil THEN b.completions[pos]
            ELSE [b.completions[pos] EXCEPT
                    !.Flags = WithFlags(b.completions[pos].Flags, b.flags)]]]

\* Build: the builder after the call; the map returned is its completions.
Build(b) ==
    [b EXCEPT !.completions =
        [pos \in DOMAIN b.completions |->
            [b.completions[pos] EXCEPT
                !.Flags = WithFlags(b.completions[pos].Flags, b.flags)]]]

\* Inputs of the model.
BuilderPositions == {0, 1}
OptionLists == {<<W("endpoints"), W("files")>>}
FlagNames == {W("--threads"), W("--verbose")}
FlagOptionLists == {<<W("1"), W("5")>>}
Generators == {BoolCompletion}

AddPosition(pos, options) ==
    /\ cb' = AddPositionTo(cb, pos, options)
    /\ cbOp' = "AddPosition"
    /\ UNCHANGED notCb

AddDynamicPosition(pos, generator) ==
    /\ cb' = AddDynamicPositionTo(cb, pos, generator)
    /\ cbOp' = "AddDynamicPosition"
    /\ UNCHANGED notCb

AddFlag(flag, options) ==
    /\ cb' = AddFlagTo(cb, flag, options)
    /\ cbOp' = "AddFlag"
    /\ UNCHANGED notCb

AddDynamicFlag(flag, generator) ==
    /\ cb' = AddDynamicFlagTo(cb, flag, generator)
    /\ cbOp' = "AddDynamicFlag"
    /\ UNCHANGED notCb

BuildCall ==
    /\ cb' = Build(cb)
    /\ cbOp' = "Build"
    /\ UNCHANGED notCb

CbNext ==
    \/ \E pos \in BuilderPositions, o \in OptionLists : AddPosition(pos, o)
    \/ \E pos \in BuilderPositions, g \in Generators : AddDynamicPosition(pos, g)
    \/ \E f \in FlagNames, o \in FlagOptionLists : AddFlag(f, o)
    \/ \E f \in FlagNames, g \in Generators : AddDynamicFlag(f, g)
    \/ BuildCall

---------------------------------------------------------------------------
(* The completer: Registry.BuildCompleter and the readline prefix tree.    *)
(* A tree is the set of its paths; a path is the sequence of the words     *)
(* from a top-level item down to an item.  The order of siblings and       *)
(* repeated siblings are not represented.                                  *)

\* RegisterWithCompleter(name, handler, description)
RegisterWithCompleter(name, handler) ==
    /\ Cardinality(DOMAIN commands \cup {name}) <= MaxCommands
    /\ commands' = MapPut(commands, name, NewCommand(name, handler, EmptyMap))
    /\ lastCall' = CallOf("RegisterWithCompleter", name, <<>>)
    /\ invoked' = <<>>
    /\ ret' = [kind |-> "nil", msg |-> <<>>]
    /\ UNCHANGED notReg

\* RegisterWithBuilder(name, handler, description, builder)
RegisterWithBuilder(name, handler, builder) ==
    /\ Cardinality(DOMAIN commands \cup {name}) <= MaxCommands
    /\ commands' = MapPut(commands, name,
                          NewCommand(name, handler, Build(builder).completions))
    /\ lastCall' = CallOf("RegisterWithBuilder", name, <<>>)
    /\ invoked' = <<>>
    /\ ret' = [kind |-> "nil", msg |-> <<>>]
    /\ UNCHANGED notReg

\* completer.Complete(args, cursorPos) of a handler that has it.
Complete(h, args) == IF h = TestCommand THEN TestCommandComplete(args) ELSE <<>>

\* buildDynamicCompletion: Complete is called once, with no arguments.
buildDynamicCompletion(name, h) ==
    {<<name>>} \cup {<<name, o>> : o \in Range(Complete(h, <<>>))}

\* buildStaticCompletion: the options of the positions below 3 and the flags
\* of each all become children of the command's item.
StaticPositionLimit == 3

buildStaticCompletion(name, cmd) ==
    LET held == {pos \in 0..(StaticPositionLimit - 1) : pos \in DOMAIN cmd.Completions}
        entry(pos) == cmd.Completions[pos]
        flagsOf(pos) == entry(pos).Flags.m
    IN  {<<name>>}
        \cup {<<name, o>> : o \in UNION {Range(entry(pos).Options) : pos \in held}}
        \cup {<<name, o>> : o \in UNION {IF entry(pos).Dynamic = NoGenerator THEN {}
                                         ELSE Range(Generate(entry(pos).Dynamic)) :
                                         pos \in held}}
        \cup UNION {UNION {{<<name, f>>} \cup
                             {<<name, f, o>> : o \in Range(flagsOf(pos)[f])} :
                           f \in DOMAIN flagsOf(pos)} : pos \in held}

\* buildLegacyCompletion: the trees of intel, show and set, else a bare item.
buildLegacyCompletion(name) ==
    CASE name = W("intel") ->
            {<<name>>}
            \cup {<<name, W(x)>> : x \in {"start", "analyze", "suggest", "explain",
                                         "status", "context", "validate", "help"}}
            \cup {<<name, W("context"), W(x)>> : x \in {"clear", "stats", "limit"}}
            \cup {<<name, W("validate"), W(x)>> : x \in {"model", "url", "rules"}}
            \cup {<<name, W("help"), W("errors")>>}
      [] name = W("show") ->
            {<<name>>} \cup {<<name, W(x)>> : x \in {"config", "session", "findings"}}
      [] name = W("set") ->
            {<<name>>} \cup {<<name, W(x)>> : x \in {"target", "timeout", "verbose"}}
      [] OTHER -> {<<name>>}

\* BuildCompleter with the static completions tried before the Completer.
BuildCompleterTreeStaticFirst(cmds) ==
    UNION {IF DOMAIN cmds[n].Completions # {}
           THEN buildStaticCompletion(n, cmds[n])
           ELSE IF ImplementsCompleter(cmds[n].Handler)
           THEN buildDynamicCompletion(n, cmds[n].Handler)
           ELSE buildLegacyCompletion(n) : n \in DOMAIN cmds}
    \cup {<<W("help")>>, <<W("exit")>>, <<W("quit")>>}

\* BuildCompleter: one subtree per command, and the built-in commands.
BuildCompleterTree(cmds) ==
    UNION {IF ImplementsCompleter(cmds[n].Handler)
           THEN buildDynamicCompletion(n, cmds[n].Handler)
           ELSE IF DOMAIN cmds[n].Completions # {}
           THEN buildStaticCompletion(n, cmds[n])
           ELSE buildLegacyCompletion(n) : n \in DOMAIN cmds}
    \cup {<<W("help")>>, <<W("exit")>>, <<W("quit")>>}

\* The candidates the prefix tree offers for the next word after the words
\* typed: the children of the item the typed words lead to.
Offered(tree, typed) ==
    {p[Len(typed) + 1] :
        p \in {q \in tree : Len(q) = Len(typed) + 1
                            /\ SubSeq(q, 1, Len(typed)) = typed}}

\* The builders of the examples.
DiscoverBuilder ==
    AddFlagTo(AddFlagTo(AddFlagTo(AddFlagTo(
        AddPositionTo(NewCompletionBuilder, 0,
            <<W("endpoints"), W("subdomains"), W("directories"), W("files")>>),
        W("--threads"), <<W("1"), W("5"), W("10"), W("20"), W("50")>>),
        W("--timeout"), <<W("30"), W("60"), W("120"), W("300")>>),
        W("--output"), <<W("json"), W("yaml"), W("text"), W("table")>>),
        W("--verbose"), <<W("true"), W("false")>>)

ConfigurationBuilder ==
    AddFlagTo(AddFlagTo(AddFlagTo(
        AddPositionTo(
            AddPositionTo(NewCompletionBuilder, 0,
                <<W("get"), W("set"), W("list"), W("reset"), W("export"),
                  W("import")>>),
            1, <<W("target"), W("timeout"), W("threads"), W("output"),
                 W("format"), W("verbose")>>),
        W("--config"), <<W("config.yaml"), W("settings.json")>>),
        W("--global"), Generate(BoolCompletion)),
        W("--user"), Generate(BoolCompletion))

\* Inputs of the model.
ExampleBuilders == {DiscoverBuilder, ConfigurationBuilder}
CompNames == {W("test"), W("discover"), W("show")}
CompHandlers == {TestCommand, DiscoverCommand}
TypedWords == {W("test"), W("discover"), W("sql"), W("endpoints")}

NoCompleter == [built |-> FALSE, tree |-> {}]

\* Console.Run builds the completer once, before it reads the first line.
BuildCompleter ==
    /\ ~completer.built
    /\ completer' = [built |-> TRUE, tree |-> BuildCompleterTree(commands)]
    /\ completeCalls' =
          IF \E n \in DOMAIN commands : ImplementsCompleter(commands[n].Handler)
          THEN {<<>>} ELSE {}
    /\ compOp' = "BuildCompleter"
    /\ UNCHANGED <<line, offered, notComp>>

\* The user types one more word and a space.
TypeWord(w) ==
    /\ completer.built
    /\ Len(line) < MaxLine
    /\ line' = Append(line, w)
    /\ compOp' = "Type"
    /\ UNCHANGED <<completer, completeCalls, offered, notComp>>

\* The user asks for completion: the tree answers, no callback of a command runs.
Tab ==
    /\ completer.built
    /\ offered' = Offered(completer.tree, line)
    /\ compOp' = "Tab"
    /\ UNCHANGED <<completer, completeCalls, line, notComp>>

\* The commands are registered before Console.Run, as in the examples.
CompNext ==
    \/ \E n \in CompNames, h \in CompHandlers :
          ~completer.built /\ Register(n, h)
    \/ \E n \in CompNames :
          ~completer.built /\ RegisterWithCompleter(n, TestCommand)
    \/ \E n \in CompNames, h \in CompHandlers, b \in ExampleBuilders :
          ~completer.built /\ RegisterWithBuilder(n, h, b)
    \/ BuildCompleter
    \/ \E w \in TypedWords : TypeWord(w)
    \/ Tab

---------------------------------------------------------------------------
(* intel.ContextManager (pkg/intel/context.go).                            *)
(* A content string is represented by its length in bytes, the only thing  *)
(* of it the manager reads.                                                *)

ContextTypeSystem == "system"
ContextTypeDomain == "domain"
ContextTypeState == "state"
ContextTypeHistory == "history"
ContextTypePrompt == "prompt"
ContextTypeUser == "user"

ContextTypes ==
    {ContextTypeSystem, ContextTypeDomain, ContextTypeState,
     ContextTypeHistory, ContextTypePrompt, ContextTypeUser}

\* Inputs of the model.
\* Ids are opaque to the manager, so a call that brings a new id always takes
\* the first one of ItemIDs that no held item carries.
ItemIDs == <<"a", "b", "c">>
ContentLens == {5, 9}
Budgets == {3, 5}
InitialBudgets == {3}
CtxTypesUsed == {ContextTypeDomain, ContextTypeState, ContextTypeHistory}

\* The unit of the model's clock, in minutes: the period of the history decay.
ClockUnitMinutes == 60

\* estimateTokens: len(text) / 4, Go's truncating integer division.
estimateTokens(content) == content \div 4

calculateInitialRelevance(contextType) ==
    CASE contextType = ContextTypeSystem -> Rat(10, 10)
      [] contextType = ContextTypeDomain -> Rat(9, 10)
      [] contextType = ContextTypeState -> Rat(8, 10)
      [] contextType = ContextTypePrompt -> Rat(7, 10)
      [] contextType = ContextTypeHistory -> Rat(6, 10)
      [] contextType = ContextTypeUser -> Rat(9, 10)
      [] OTHER -> Rat(5, 10)

\* s without its element at index i: append(s[:i], s[i+1:]...)
RemoveAt(s, i) == SubSeq(s, 1, i - 1) \o SubSeq(s, i + 1, Len(s))

FirstIndexOf(its, id) ==
    IF \E i \in 1..Len(its) : its[i].ID = id
    THEN CHOOSE i \in 1..Len(its) :
            /\ its[i].ID = id
            /\ \A j \in 1..(i - 1) : its[j].ID # id
    ELSE 0

\* removeItem: drops the first item with the id and its tokens from the total.
removeItemKeepsTokens(its, cur, id) ==
    LET i == FirstIndexOf(its, id)
    IN  IF i = 0 THEN [items |-> its, currentTokens |-> cur]
        ELSE [items |-> RemoveAt(its, i), currentTokens |-> cur]

removeItem(its, cur, id) ==
    LET i == FirstIndexOf(its, id)
    IN  IF i = 0 THEN [items |-> its, currentTokens |-> cur]
        ELSE [items |-> RemoveAt(its, i),
              currentTokens |-> cur - its[i].TokenCount]

\* The age factor of updateRelevanceScores for an item aged `age` clock units:
\* 1 - (minutes / period) * rate, floored at 0.1.
Decay(age, period, rateNum, rateDen) ==
    RatSub(RatOne, RatMul(Rat(age * ClockUnitMinutes, period), Rat(rateNum, rateDen)))

ageFactor(contextType, age) ==
    LET f == CASE contextType = ContextTypeHistory -> Decay(age, 60, 5, 10)
               [] contextType = ContextTypeState -> Decay(age, 120, 3, 10)
               [] contextType \in {ContextTypeSystem, ContextTypeDomain} -> RatOne
               [] OTHER -> Decay(age, 90, 4, 10)
    IN  IF RatLess(f, Rat(1, 10)) THEN Rat(1, 10) ELSE f

\* updateRelevanceScores: every item's relevance is multiplied by its age factor.
updateRelevanceScores(its, t) ==
    [i \in 1..Len(its) |->
        [its[i] EXCEPT !.Relevance =
            RatMul(its[i].Relevance, ageFactor(its[i].Type, t - its[i].Timestamp))]]

\* The comparison optimize sorts by: essential items first, then by
\* descending relevance.
optimizeLessAscending(x, y) ==
    IF x.IsEssential # y.IsEssential THEN x.IsEssential
    ELSE RatLess(x.Relevance, y.Relevance)

optimizeLess(x, y) ==
    IF x.IsEssential # y.IsEssential THEN x.IsEssential
    ELSE RatLess(y.Relevance, x.Relevance)

\* sort.Slice is not stable: any arrangement of the items that is sorted by
\* the comparison is a possible result.
SortedArrangements(its) ==
    LET n == Len(its)
        perms == {f \in [1..n -> 1..n] : \A i, j \in 1..n : f[i] = f[j] => i = j}
        arr(f) == [i \in 1..n |-> its[f[i]]]
    IN  {arr(f) : f \in {g \in perms :
            \A i, j \in 1..n : i < j => ~optimizeLess(its[g[j]], its[g[i]])}}

\* targetTokens: int(float64(maxTokens) * 0.8)
targetTokensFull(max) == max
targetTokens(max) == (max * 8) \div 10

\* The index optimize removes: the last non-essential item, 0 if there is none.
removeIndexAny(its) == Len(its)
\* The first non-essential item instead of the last.
removeIndexFirst(its) ==
    IF \E i \in 1..Len(its) : ~its[i].IsEssential
    THEN CHOOSE i \in 1..Len(its) :
            /\ ~its[i].IsEssential
            /\ \A j \in 1..(i - 1) : its[j].IsEssential
    ELSE 0
removeIndex(its) ==
    IF \E i \in 1..Len(its) : ~its[i].IsEssential
    THEN CHOOSE i \in 1..Len(its) :
            /\ ~its[i].IsEssential
            /\ \A j \in (i + 1)..Len(its) : its[j].IsEssential
    ELSE 0

\* The eviction loop of optimize.
RECURSIVE evictLoop(_, _, _, _)
evictLoop(its, cur, target, ev) ==
    IF cur > target /\ Len(its) > 0
    THEN LET i == removeIndex(its)
         IN  IF i = 0
             THEN [items |-> its, currentTokens |-> cur, evicted |-> ev]
             ELSE evictLoop(RemoveAt(its, i), cur - its[i].TokenCount, target,
                            Append(ev, its[i]))
    ELSE [items |-> its, currentTokens |-> cur, evicted |-> ev]

\* optimize with the target taken from the current total instead of the budget.
optimizeOfCurrent(its, cur, max, t) ==
    {evictLoop(sorted, cur, (cur * 8) \div 10, <<>>) :
        sorted \in SortedArrangements(updateRelevanceScores(its, t))}

\* optimize: the possible results of one pass over (its, cur).
optimize(its, cur, max, t) ==
    {evictLoop(sorted, cur, targetTokens(max), <<>>) :
        sorted \in SortedArrangements(updateRelevanceScores(its, t))}

\* What is recorded of the optimize pass an operation ran: the items and the
\* total it started from, the items it evicted in order, and how many passes
\* have now run in a row under one budget with no insertion in between.
NoPass == [ran |-> FALSE, before |-> <<>>, tokens |-> 0, evicted |-> <<>>,
           streak |-> 0]

PassOf(before, tokens, r, streak) ==
    [ran |-> TRUE, before |-> before, tokens |-> tokens,
     evicted |-> r.evicted, streak |-> streak]

CtxOpOf(op, id, content, old) ==
    [op |-> op, id |-> id, content |-> content, old |-> old, at |-> now]

\* The clock advances by one unit.
Tick ==
    /\ now < MaxClock
    /\ now' = now + 1
    /\ UNCHANGED <<items, currentTokens, maxTokens, ops, passes, ctxOp, pass, notCtx>>

\* AddContext(id, contextType, content, isEssential)
AddContext(id, contextType, content, isEssential) ==
    LET tokens == estimateTokens(content)
        item == [ID |-> id, Type |-> contextType, Content |-> content,
                 Timestamp |-> now,
                 Relevance |-> calculateInitialRelevance(contextType),
                 TokenCount |-> tokens, IsEssential |-> isEssential]
        removed == removeItem(items, currentTokens, id)
        added == Append(removed.items, item)
        total == removed.currentTokens + tokens
        i == FirstIndexOf(items, id)
    IN  /\ ops < MaxOps
        /\ ops' = ops + 1
        /\ ctxOp' = CtxOpOf("AddContext", id, content,
                            IF i = 0 THEN -1 ELSE items[i].TokenCount)
        /\ UNCHANGED <<maxTokens, now, notCtx>>
        /\ IF total > maxTokens
           THEN /\ passes < MaxPasses
                /\ passes' = passes + 1
                /\ \E r \in optimize(added, total, maxTokens, now) :
                      /\ items' = r.items
                      /\ currentTokens' = r.currentTokens
                      /\ pass' = PassOf(added, total, r, 1)
           ELSE /\ items' = added
                /\ currentTokens' = total
                /\ pass' = NoPass
                /\ UNCHANGED passes

\* SetMaxTokens(max)
SetMaxTokens(max) ==
    /\ ops < MaxOps
    /\ ops' = ops + 1
    /\ maxTokens' = max
    /\ ctxOp' = CtxOpOf("SetMaxTokens", "", 0, -1)
    /\ UNCHANGED <<now, notCtx>>
    /\ IF currentTokens > max
       THEN /\ passes < MaxPasses
            /\ passes' = passes + 1
            /\ \E r \in optimize(items, currentTokens, max, now) :
                  /\ items' = r.items
                  /\ currentTokens' = r.currentTokens
                  /\ pass' = PassOf(items, currentTokens, r,
                                    IF max = maxTokens THEN pass.streak + 1 ELSE 1)
       ELSE /\ pass' = NoPass
            /\ UNCHANGED <<items, currentTokens, passes>>

\* A direct call of optimize, as the package's own code and tests can make.
OptimizeCall ==
    /\ ops < MaxOps
    /\ ops' = ops + 1
    /\ passes < MaxPasses
    /\ passes' = passes + 1
    /\ ctxOp' = CtxOpOf("optimize", "", 0, -1)
    /\ UNCHANGED <<maxTokens, now, notCtx>>
    /\ \E r \in optimize(items, currentTokens, maxTokens, now) :
          /\ items' = r.items
          /\ currentTokens' = r.currentTokens
          /\ pass' = PassOf(items, currentTokens, r, pass.streak + 1)

HeldIDs == {items[i].ID : i \in 1..Len(items)}

CallerIDs ==
    HeldIDs \cup {ItemIDs[k] : k \in {j \in 1..Len(ItemIDs) :
                     /\ ItemIDs[j] \notin HeldIDs
                     /\ \A h \in 1..(j - 1) : ItemIDs[h] \in HeldIDs}}

CtxNext ==
    \/ Tick
    \/ \E id \in CallerIDs, ty \in CtxTypesUsed, c \in ContentLens, e \in BOOLEAN :
          AddContext(id, ty, c, e)
    \/ \E m \in Budgets : SetMaxTokens(m)

---------------------------------------------------------------------------
(* IntelError and HandleError (pkg/intel/errors.go).                       *)
(* An error text is a sequence of chunks; the chunks HandleError searches  *)
(* for are chunks of their own.                                            *)

ErrorTypeOllama == "Ollama"
ErrorTypeModel == "Model"
ErrorTypeNetwork == "Network"
ErrorTypeUnknown == "Unknown"

NewIntelError(errorType, code) == [Type |-> errorType, Code |-> code]
NewOllamaError(code) == NewIntelError(ErrorTypeOllama, code)
NewModelError(code) == NewIntelError(ErrorTypeModel, code)
NewNetworkError(code) == NewIntelError(ErrorTypeNetwork, code)

\* strings.Contains(errStr, pattern) for a pattern that is one chunk.
Has(errStr, pattern) == Contains(errStr, <<pattern>>)

\* HandleError(err) for an err that is not an *IntelError.
HandleError(errStr) ==
    IF Has(errStr, "connection refused") \/ Has(errStr, "11434")
    THEN NewOllamaError("connection_failed")
    ELSE IF Has(errStr, "no such file") /\ Has(errStr, "ollama")
    THEN NewOllamaError("not_installed")
    ELSE IF Has(errStr, "model") /\ Has(errStr, "not found")
    THEN NewModelError("not_found")
    ELSE IF Has(errStr, "pull") /\ Has(errStr, "failed")
    THEN NewModelError("download_failed")
    ELSE IF Has(errStr, "timeout") \/ Has(errStr, "deadline exceeded")
    THEN NewNetworkError("timeout")
    ELSE IF Has(errStr, "connection refused")
    THEN NewNetworkError("connection_refused")
    ELSE NewIntelError(ErrorTypeUnknown, "generic")

\* IntelError.RetryableError
RetryableError(ie) ==
    CASE ie.Type = ErrorTypeNetwork ->
            ie.Code = "timeout" \/ ie.Code = "connection_refused"
      [] ie.Type = ErrorTypeOllama -> ie.Code = "not_running"
      [] ie.Type = ErrorTypeModel -> ie.Code = "download_failed"
      [] OTHER -> FALSE

\* IntelError.GetRetryDelay, in seconds
GetRetryDelay(ie) ==
    CASE ie.Type = ErrorTypeNetwork -> 5
      [] ie.Type = ErrorTypeOllama -> 3
      [] ie.Type = ErrorTypeModel -> 10
      [] OTHER -> 1

---------------------------------------------------------------------------
(* IntelSystem.queryModel (pkg/intel/commands.go).                         *)

maxRetries == 3

\* What client.Chat can end with: a response, or an error with this text.
ChatOK == <<"ok">>
ChatErrors ==
    {<<"Post http://localhost:", "11434", "/api/chat: dial tcp 127.0.0.1:",
       "11434", ": connect: ", "connection refused">>,
     <<"Post http://10.0.0.5:8080/api/chat: dial tcp: connect: ",
       "connection refused">>,
     <<"Post http://localhost:", "11434", "/api/chat: context ",
       "deadline exceeded">>,
     <<"Post http://10.0.0.5:8080/api/chat: context ", "deadline exceeded">>,
     <<"read tcp 10.0.0.5:8080: i/o ", "timeout">>,
     <<"pull", " model manifest: ", "failed">>,
     <<"model", " 'phi3:3.8b' ", "not found", ", try pulling it first">>,
     <<"unexpected EOF">>}
ChatOutcomes == {ChatOK} \cup ChatErrors

NoReturn == [kind |-> "none"]
NoQuery ==
    [pc |-> "idle", attempt |-> 0, outcomes |-> <<>>, slept |-> <<>>,
     ret |-> NoReturn]

\* One iteration of the loop of queryModel with a retry after every
\* retryable error, whatever the number of attempts made.
queryAttemptUnlimited(q, outcome) ==
    LET intelErr == HandleError(outcome)
        seen == [q EXCEPT !.outcomes = Append(@, outcome)]
    IN  IF outcome = ChatOK
        THEN [seen EXCEPT !.pc = "done", !.ret = [kind |-> "ok"]]
        ELSE IF ~RetryableError(intelErr)
        THEN [seen EXCEPT !.pc = "done",
                          !.ret = [kind |-> "error", err |-> intelErr]]
        ELSE [seen EXCEPT !.attempt = @ + 1,
                          !.slept = Append(@, GetRetryDelay(intelErr))]

\* One iteration of the loop of queryModel: the chat, and what follows it.
queryAttempt(q, outcome) ==
    LET intelErr == HandleError(outcome)
        seen == [q EXCEPT !.outcomes = Append(@, outcome)]
    IN  IF outcome = ChatOK
        THEN [seen EXCEPT !.pc = "done", !.ret = [kind |-> "ok"]]
        ELSE IF ~RetryableError(intelErr) \/ q.attempt = maxRetries
        THEN [seen EXCEPT !.pc = "done",
                          !.ret = [kind |-> "error", err |-> intelErr]]
        ELSE [seen EXCEPT !.attempt = @ + 1,
                          !.slept = Append(@, GetRetryDelay(intelErr))]

\* queryModel is called: the loop starts at attempt 1.
QueryModel ==
    /\ qm.pc \in {"idle", "done"}
    /\ qm' = [NoQuery EXCEPT !.pc = "chat", !.attempt = 1]
    /\ UNCHANGED notQm

\* client.Chat returns, and queryModel returns or sleeps and loops.
ChatReturns(outcome) ==
    /\ qm.pc = "chat"
    /\ qm.attempt <= maxRetries
    /\ qm' = queryAttempt(qm, outcome)
    /\ UNCHANGED notQm

\* The return after the loop (max_retries) is never reached: the iteration of
\* attempt maxRetries returns whatever the chat ended with.
QmNext ==
    \/ QueryModel
    \/ \E o \in ChatOutcomes : ChatReturns(o)

---------------------------------------------------------------------------
(* ModelManager.AutoSelectModel (pkg/intel/models.go).                     *)
(* A preference is a word whose first letter is a chunk of its own.        *)

SpecialtyGeneral == <<"g", "eneral">>
SpecialtyCoding == <<"c", "oding">>
SpecialtySecurity == <<"s", "ecurity">>
SpecialtyFast == <<"f", "ast">>
NoSpecialty == <<>>

ModelInfo(name, specialty, minRAM, recommended) ==
    [Name |-> name, Specialty |-> specialty, MinRAM |-> minRAM,
     Recommended |-> recommended]

RecommendedModels ==
    <<ModelInfo("phi3:3.8b", SpecialtyGeneral, 4, TRUE),
      ModelInfo("llama3.2:3b", SpecialtyGeneral, 4, TRUE),
      ModelInfo("qwen2.5:3b", SpecialtyCoding, 4, TRUE),
      ModelInfo("gemma2:2b", SpecialtyFast, 2, FALSE),
      ModelInfo("codellama:7b", SpecialtyCoding, 8, FALSE),
      ModelInfo("llama3.2:1b", SpecialtyFast, 2, FALSE)>>

\* The keywords of each specialty in the switch over the preferences.
Keywords(specialty) ==
    CASE specialty = SpecialtyCoding ->
            {<<"c", "oding">>, <<"c", "ode">>, <<"d", "evelopment">>}
      [] specialty = SpecialtySecurity ->
            {<<"s", "ecurity">>, <<"p", "entest">>, <<"a", "udit">>}
      [] specialty = SpecialtyFast ->
            {<<"f", "ast">>, <<"l", "ightweight">>, <<"q", "uick">>}
      [] specialty = SpecialtyGeneral ->
            {<<"g", "eneral">>, <<"a", "nalysis">>, <<"r", "easoning">>}
      [] OTHER -> {}

Specialties ==
    {SpecialtyCoding, SpecialtySecurity, SpecialtyFast, SpecialtyGeneral}

\* The case of the switch a preference falls in, with a preference that
\* merely contains a keyword taken as that keyword.
specialtyOfPreferenceContaining(pref) ==
    IF \E sp \in Specialties : \E k \in Keywords(sp) : Contains(ToLower(pref), k)
    THEN CHOOSE sp \in Specialties : \E k \in Keywords(sp) : Contains(ToLower(pref), k)
    ELSE NoSpecialty

\* The case of the switch a preference falls in: switch strings.ToLower(pref).
specialtyOfPreference(pref) ==
    IF \E sp \in Specialties : ToLower(pref) \in Keywords(sp)
    THEN CHOOSE sp \in Specialties : ToLower(pref) \in Keywords(sp)
    ELSE NoSpecialty

\* The loop over the preferences: the last one that names a specialty wins.
RECURSIVE preferredSpecialtyOf(_)
preferredSpecialtyOf(preferences) ==
    IF preferences = <<>> THEN NoSpecialty
    ELSE LET n == Len(preferences)
             last == specialtyOfPreference(preferences[n])
         IN  IF last # NoSpecialty THEN last
             ELSE preferredSpecialtyOf(SubSeq(preferences, 1, n - 1))

\* The score of one model; a model that does not fit is skipped.
scoreOf(model, systemRAM, preferredSpecialty) ==
    LET preferFast == systemRAM < 8
        recommended == IF model.Recommended THEN 10 ELSE 0
        matching == IF preferredSpecialty # NoSpecialty
                       /\ model.Specialty = preferredSpecialty THEN 8 ELSE 0
        fast == IF preferFast /\ model.Specialty = SpecialtyFast THEN 5 ELSE 0
        general == IF preferredSpecialty = NoSpecialty
                      /\ model.Specialty = SpecialtyGeneral THEN 3 ELSE 0
    IN  [fits |-> model.MinRAM <= systemRAM,
         matching |-> matching,
         score |-> recommended + 5 + matching + fast + general]

\* The scoring loop from model k on: the best model so far and its score.
RECURSIVE bestFrom(_, _, _, _, _)
bestFrom(k, systemRAM, preferredSpecialty, bestModel, bestScore) ==
    IF k > Len(RecommendedModels) THEN bestModel
    ELSE LET sc == scoreOf(RecommendedModels[k], systemRAM, preferredSpecialty)
         IN  IF sc.fits /\ sc.score > bestScore
             THEN bestFrom(k + 1, systemRAM, preferredSpecialty,
                           RecommendedModels[k].Name, sc.score)
             ELSE bestFrom(k + 1, systemRAM, preferredSpecialty,
                           bestModel, bestScore)

\* The fallback when every model was skipped.
fallbackModel ==
    LET ok == {k \in 1..Len(RecommendedModels) :
                  RecommendedModels[k].Recommended /\ RecommendedModels[k].MinRAM <= 4}
    IN  IF ok = {} THEN "phi3:3.8b"
        ELSE RecommendedModels[CHOOSE k \in ok : \A j \in ok : k <= j].Name

\* AutoSelectModel(preferences...) on a system whose RAM figure is systemRAM.
AutoSelectModelOf(preferences, systemRAM) ==
    LET best == bestFrom(1, systemRAM, preferredSpecialtyOf(preferences), "", -1)
    IN  IF best = "" THEN fallbackModel ELSE best

NoSelection ==
    [called |-> FALSE, preferences |-> <<>>, systemRAM |-> 0, result |-> "",
     scores |-> <<>>]

\* Inputs of the model.
MaxRAM == 9
MaxPreferences == 2
Preferences ==
    {<<"c", "oding">>, <<"C", "oding">>, <<"c", "oding", " tasks">>,
     <<"f", "ast">>, <<"s", "ecurity">>, <<"r", "ust">>}
PreferenceLists ==
    UNION {[1..n -> Preferences] : n \in 0..MaxPreferences}

\* int(memInfo.Sys / GB) is whatever the runtime holds at the time.  The
\* function keeps no state, so one call per behaviour shows all it does.
AutoSelectModel(preferences, systemRAM) ==
    /\ ~sel.called
    /\ sel' = [called |-> TRUE, preferences |-> preferences,
               systemRAM |-> systemRAM,
               result |-> AutoSelectModelOf(preferences, systemRAM),
               scores |-> [k \in 1..Len(RecommendedModels) |->
                              scoreOf(RecommendedModels[k], systemRAM,
                                      preferredSpecialtyOf(preferences))]]
    /\ UNCHANGED notSel

SelNext ==
    \E p \in PreferenceLists, ram \in 0..MaxRAM : AutoSelectModel(p, ram)

---------------------------------------------------------------------------
(* Console.Run (console.go): the read-eval loop.                           *)
(* A line is the sequence of its fields; a command word has its first      *)
(* letter as a chunk of its own.                                           *)

NewConsole ==
    [pc |-> "new", last |-> [kind |-> "none", input |-> <<>>],
     reported |-> <<>>, helpShown |-> FALSE]

BuiltinExit == {<<"e", "xit">>, <<"q", "uit">>}
BuiltinHelp == <<"h", "elp">>

\* Where the loop is after a line when an error of a command ends it.
loopAfterLineFatal(input, result) ==
    IF input = <<>> THEN "reading"
    ELSE IF ToLower(input[1]) \in BuiltinExit THEN "ended"
    ELSE IF ToLower(input[1]) = BuiltinHelp THEN "reading"
    ELSE IF result.kind = "error" THEN "ended"
    ELSE "reading"

\* Where the loop is after a line: back at Readline, or returned.
loopAfterLine(input, result) ==
    IF input = <<>> THEN "reading"
    ELSE IF ToLower(input[1]) \in BuiltinExit THEN "ended"
    ELSE "reading"

\* Whether an iteration hands the line to the registry.
ReachesExecute(input) ==
    /\ input # <<>>
    /\ ToLower(input[1]) \notin BuiltinExit
    /\ ToLower(input[1]) # BuiltinHelp

\* What Registry.Execute(name, args) returns on the registry as it is.
ExecuteResult(name, args) ==
    IF LookupKey(name) \notin DOMAIN commands
    THEN UnknownCommandError(name)
    ELSE HandlerExecute(commands[LookupKey(name)].Handler, args)

\* AddCommand before Run.
AddCommand(name, handler) ==
    /\ con.pc = "new"
    /\ Register(name, handler)

\* Run: the completer is built, readline is set up, the loop is entered.
RunStarts ==
    /\ con.pc = "new"
    /\ con' = [con EXCEPT !.pc = "reading"]
    /\ completer' = [built |-> TRUE, tree |-> BuildCompleterTree(commands)]
    /\ completeCalls' =
          IF \E n \in DOMAIN commands : ImplementsCompleter(commands[n].Handler)
          THEN {<<>>} ELSE {}
    /\ compOp' = "BuildCompleter"
    /\ UNCHANGED <<regVars, cbVars, ctxVars, line, offered, restCon>>

\* One iteration of the loop on a line read.
ReadsLine(input) ==
    /\ con.pc = "reading"
    /\ LET result == IF ReachesExecute(input)
                     THEN ExecuteResult(input[1], Tail(input))
                     ELSE [kind |-> "nil", msg |-> <<>>]
       IN  /\ con' = [pc |-> loopAfterLine(input, result),
                      last |-> [kind |-> "line", input |-> input],
                      reported |-> IF result.kind = "error" THEN result.msg
                                   ELSE <<>>,
                      helpShown |-> input # <<>> /\ ToLower(input[1]) = BuiltinHelp]
           /\ IF ReachesExecute(input)
              THEN /\ lastCall' = CallOf("Execute", input[1], Tail(input))
                   /\ ret' = result
                   /\ invoked' =
                        IF LookupKey(input[1]) \in DOMAIN commands
                        THEN <<[handler |-> commands[LookupKey(input[1])].Handler,
                                args |-> Tail(input)]>>
                        ELSE <<>>
              ELSE UNCHANGED <<lastCall, ret, invoked>>
    /\ UNCHANGED <<commands, cbVars, compVars, ctxVars, restCon>>

\* Readline returns readline.ErrInterrupt or io.EOF.
ReadFails(err) ==
    /\ con.pc = "reading"
    /\ con' = [pc |-> "ended", last |-> [kind |-> err, input |-> <<>>],
               reported |-> <<>>, helpShown |-> FALSE]
    /\ UNCHANGED notCon

\* Inputs of the model.
ConNames == {<<"s", "et">>, <<"t", "est">>}
ConHandlers == {SetCommand, TestCommand}
ConLines ==
    {<<>>,
     <<<<"e", "xit">>>>, <<<<"E", "xit">>>>, <<<<"Q", "uit">>>>,
     <<<<"h", "elp">>>>, <<<<"H", "elp">>>>,
     <<<<"n", "ope">>>>,
     <<<<"s", "et">>>>, <<<<"s", "et">>, W("key"), W("value")>>,
     <<<<"t", "est">>, W("sql")>>}
ReadErrors == {"interrupt", "eof"}

ConNext ==
    \/ \E n \in ConNames, h \in ConHandlers : AddCommand(n, h)
    \/ RunStarts
    \/ \E l \in ConLines : ReadsLine(l)
    \/ \E e \in ReadErrors : ReadFails(e)

---------------------------------------------------------------------------
(* The stores of package config: State (state.go), whose methods take      *)
(* its sync.RWMutex, and Config (config.go), whose methods take no lock.   *)
(* A call is in progress from its entry to its return; pc tells where:     *)
(* "acquire" before Lock/RLock, "in" before the access to the map, "out"   *)
(* before the deferred Unlock/RUnlock.                                     *)

MaxGoroutines == 2
Goroutines == 1..MaxGoroutines

StoreKeys == {"target"}
StoreValues == {1, 2}

\* The calls: Set(key, value), Get(key), Delete(key), Clear().
StoreCalls ==
    {[op |-> "Set", key |-> k, value |-> v] : k \in StoreKeys, v \in StoreValues}
    \cup {[op |-> "Get", key |-> k, value |-> 0] : k \in StoreKeys}
    \cup {[op |-> "Delete", key |-> k, value |-> 0] : k \in StoreKeys}
    \cup {[op |-> "Clear", key |-> "", value |-> 0]}
NoStoreCall == [op |-> "none", key |-> "", value |-> 0]

\* Set, Delete and Clear write the map; Get reads it.
WritesMap(call) == call.op \in {"Set", "Delete", "Clear"}

\* NewState() / config.New(): an empty map, the lock free, no call in progress.
NewStore ==
    [data |-> EmptyMap,
     writer |-> 0,
     readers |-> {},
     pc |-> [g \in Goroutines |-> "idle"],
     call |-> [g \in Goroutines |-> NoStoreCall],
     got |-> [g \in Goroutines |-> <<>>]]

\* The map after the access of a call, and what a Get read.
AccessMap(data, call) ==
    CASE call.op = "Set" -> MapPut(data, call.key, call.value)
      [] call.op = "Delete" -> [k \in DOMAIN data \ {call.key} |-> data[k]]
      [] call.op = "Clear" -> EmptyMap
      [] OTHER -> data
ReadMap(data, call) ==
    IF call.op = "Get" /\ call.key \in DOMAIN data THEN <<data[call.key]>>
    ELSE <<>>

\* mutex.Lock() / mutex.RLock(): whether it returns now.
CanLock(s) == s.writer = 0 /\ s.readers = {}
CanRLock(s) == s.writer = 0

\* ---- State: every method is Lock/RLock, deferred unlock, map access ----

StateCall(g, call) ==
    /\ state.pc[g] = "idle"
    /\ state' = [state EXCEPT !.pc[g] = "acquire", !.call[g] = call,
                              !.got[g] = <<>>]
    /\ UNCHANGED notState

StateAcquire(g) ==
    /\ state.pc[g] = "acquire"
    /\ IF WritesMap(state.call[g])
       THEN /\ CanLock(state)
            /\ state' = [state EXCEPT !.pc[g] = "in", !.writer = g]
       ELSE /\ CanRLock(state)
            /\ state' = [state EXCEPT !.pc[g] = "in", !.readers = @ \cup {g}]
    /\ UNCHANGED notState

StateAccess(g) ==
    /\ state.pc[g] = "in"
    /\ state' = [state EXCEPT !.pc[g] = "out",
                              !.data = AccessMap(@, state.call[g]),
                              !.got[g] = ReadMap(state.data, state.call[g])]
    /\ UNCHANGED notState

StateRelease(g) ==
    /\ state.pc[g] = "out"
    /\ state' = [state EXCEPT !.pc[g] = "idle",
                              !.call[g] = NoStoreCall,
                              !.writer = IF @ = g THEN 0 ELSE @,
                              !.readers = @ \ {g}]
    /\ UNCHANGED notState

\* ---- Config: every method is the map access alone ----

ConfigCall(g, call) ==
    /\ config.pc[g] = "idle"
    /\ config' = [config EXCEPT !.pc[g] = "in", !.call[g] = call,
                                !.got[g] = <<>>]
    /\ UNCHANGED notConfig

ConfigAccess(g) ==
    /\ config.pc[g] = "in"
    /\ config' = [config EXCEPT !.pc[g] = "idle",
                                !.call[g] = NoStoreCall,
                                !.data = AccessMap(@, config.call[g]),
                                !.got[g] = ReadMap(config.data, config.call[g])]
    /\ UNCHANGED notConfig

StoreNext ==
    \/ \E g \in Goroutines, c \in StoreCalls : StateCall(g, c)
    \/ \E g \in Goroutines : StateAcquire(g)
    \/ \E g \in Goroutines : StateAccess(g)
    \/ \E g \in Goroutines : StateRelease(g)
    \/ \E g \in Goroutines, c \in StoreCalls : ConfigCall(g, c)
    \/ \E g \in Goroutines : ConfigAccess(g)

---------------------------------------------------------------------------
(* The progress indicators (pkg/output/progress.go).  Each has a caller    *)
(* and, once started, an animation goroutine.  A goroutine's pc names the  *)
(* access to shared state it makes next.                                   *)

Messages == {"scanning", "done"}
MaxCount == 2

\* An access to a field of an indicator.
Access(field, kind, atomic) == [field |-> field, kind |-> kind, atomic |-> atomic]
NoAccess == Access("none", "read", TRUE)

\* ---- ProgressSpinner ----

NewSpinner ==
    [message |-> "scanning", isRunning |-> 0,
     callerPc |-> "idle", pending |-> "",
     spinPc |-> "none", shown |-> ""]

\* Start: atomic.StoreInt32(p.isRunning, 1); go p.spin()
SpinnerStart ==
    /\ spinner.callerPc = "idle"
    /\ spinner.spinPc \in {"none", "returned"}
    /\ spinner' = [spinner EXCEPT !.isRunning = 1, !.spinPc = "select"]
    /\ UNCHANGED notSpinner

\* UpdateMessage(message) is entered: next is the store to p.message.
SpinnerUpdateMessage(message) ==
    /\ spinner.callerPc = "idle"
    /\ spinner' = [spinner EXCEPT !.callerPc = "write", !.pending = message]
    /\ UNCHANGED notSpinner

\* UpdateMessage: p.message = message, a plain store.
SpinnerStoreMessage ==
    /\ spinner.callerPc = "write"
    /\ spinner' = [spinner EXCEPT !.callerPc = "idle", !.message = spinner.pending,
                                  !.pending = ""]
    /\ UNCHANGED notSpinner

\* Stop, when running: the flag is cleared, next is the send on done.
SpinnerStop ==
    /\ spinner.callerPc = "idle"
    /\ spinner.isRunning = 1
    /\ spinner' = [spinner EXCEPT !.isRunning = 0, !.callerPc = "send"]
    /\ UNCHANGED notSpinner

\* spin: case <-p.done, meeting the send of Stop; spin returns.
SpinReceivesDone ==
    /\ spinner.spinPc = "select"
    /\ spinner.callerPc = "send"
    /\ spinner' = [spinner EXCEPT !.spinPc = "returned", !.callerPc = "idle"]
    /\ UNCHANGED notSpinner

\* spin: case <-ticker.C with the flag set; next is the read of p.message.
SpinTicks ==
    /\ spinner.spinPc = "select"
    /\ spinner.isRunning = 1
    /\ spinner' = [spinner EXCEPT !.spinPc = "print"]
    /\ UNCHANGED notSpinner

\* spin: fmt.Printf(..., p.message), a plain load.  A load that runs while
\* UpdateMessage stores may see the old string, the new one, or a mix of
\* the two string headers.
SpinPrints ==
    /\ spinner.spinPc = "print"
    /\ \E seen \in IF spinner.callerPc = "write"
                   THEN {spinner.message, spinner.pending, "torn"}
                   ELSE {spinner.message} :
          spinner' = [spinner EXCEPT !.spinPc = "select", !.shown = seen]
    /\ UNCHANGED notSpinner

\* The access each goroutine of a spinner makes next.
SpinnerCallerAccess ==
    CASE spinner.callerPc = "write" -> Access("message", "write", FALSE)
      [] OTHER -> NoAccess
SpinnerSpinAccess ==
    CASE spinner.spinPc = "print" -> Access("message", "read", FALSE)
      [] spinner.spinPc = "select" -> Access("isRunning", "read", TRUE)
      [] OTHER -> NoAccess

\* ---- ProgressCounter ----

NewCounter ==
    [message |-> "scanning", isRunning |-> 0, current |-> 0, found |-> 0,
     callerPc |-> "idle",
     displayPc |-> "none", sawCurrent |-> 0, sawFound |-> 0, shown |-> <<>>]

\* Start: atomic.StoreInt32(p.isRunning, 1); go p.display()
CounterStart ==
    /\ counter.callerPc = "idle"
    /\ counter.displayPc \in {"none", "returned"}
    /\ counter' = [counter EXCEPT !.isRunning = 1, !.displayPc = "select"]
    /\ UNCHANGED notCounter

\* Increment: atomic.AddInt64(p.current, 1)
CounterIncrement ==
    /\ counter.callerPc = "idle"
    /\ counter.current < MaxCount
    /\ counter' = [counter EXCEPT !.current = @ + 1]
    /\ UNCHANGED notCounter

\* IncrementFound: atomic.AddInt32(p.found, 1)
CounterIncrementFound ==
    /\ counter.callerPc = "idle"
    /\ counter.found < MaxCount
    /\ counter' = [counter EXCEPT !.found = @ + 1]
    /\ UNCHANGED notCounter

\* Stop, when running.
CounterStop ==
    /\ counter.callerPc = "idle"
    /\ counter.isRunning = 1
    /\ counter' = [counter EXCEPT !.isRunning = 0, !.callerPc = "send"]
    /\ UNCHANGED notCounter

\* display: case <-p.done
DisplayReceivesDone ==
    /\ counter.displayPc = "select"
    /\ counter.callerPc = "send"
    /\ counter' = [counter EXCEPT !.displayPc = "returned", !.callerPc = "idle"]
    /\ UNCHANGED notCounter

\* display: case <-ticker.C with the flag set
DisplayTicks ==
    /\ counter.displayPc = "select"
    /\ counter.isRunning = 1
    /\ counter' = [counter EXCEPT !.displayPc = "loadCurrent"]
    /\ UNCHANGED notCounter

\* display: atomic.LoadInt64(p.current)
DisplayLoadsCurrent ==
    /\ counter.displayPc = "loadCurrent"
    /\ counter' = [counter EXCEPT !.displayPc = "loadFound",
                                  !.sawCurrent = counter.current]
    /\ UNCHANGED notCounter

\* display: atomic.LoadInt32(p.found)
DisplayLoadsFound ==
    /\ counter.displayPc = "loadFound"
    /\ counter' = [counter EXCEPT !.displayPc = "print",
                                  !.sawFound = counter.found]
    /\ UNCHANGED notCounter

\* display: fmt.Printf(..., p.message, currentChecked, p.total, currentFound)
DisplayPrints ==
    /\ counter.displayPc = "print"
    /\ counter' = [counter EXCEPT !.displayPc = "select",
                                  !.shown = <<counter.message, counter.sawCurrent,
                                              counter.sawFound>>]
    /\ UNCHANGED notCounter

\* The access each goroutine of a counter makes next.  The caller's calls
\* are single atomic operations, made from "idle".
CounterCallerAccesses ==
    IF counter.callerPc = "idle"
    THEN {Access("current", "write", TRUE), Access("found", "write", TRUE),
          Access("isRunning", "write", TRUE)}
    ELSE {}
CounterDisplayAccess ==
    CASE counter.displayPc = "select" -> Access("isRunning", "read", TRUE)
      [] counter.displayPc = "loadCurrent" -> Access("current", "read", TRUE)
      [] counter.displayPc = "loadFound" -> Access("found", "read", TRUE)
      [] counter.displayPc = "print" -> Access("message", "read", FALSE)
      [] OTHER -> NoAccess

IndNext ==
    \/ SpinnerStart
    \/ \E m \in Messages : SpinnerUpdateMessage(m)
    \/ SpinnerStoreMessage
    \/ SpinnerStop
    \/ SpinReceivesDone
    \/ SpinTicks
    \/ SpinPrints
    \/ CounterStart
    \/ CounterIncrement
    \/ CounterIncrementFound
    \/ CounterStop
    \/ DisplayReceivesDone
    \/ DisplayTicks
    \/ DisplayLoadsCurrent
    \/ DisplayLoadsFound
    \/ DisplayPrints

---------------------------------------------------------------------------
(* The Ollama manager (pkg/intel/ollama.go).  service is the state of the  *)
(* Ollama HTTP endpoint: "down" refuses connections, "loading" answers     *)
(* /api/version with a status other than 200, "up" answers 200.  clock     *)
(* counts the seconds since the spawn of `ollama serve`.                   *)

SleepSeconds == 2
MaxSeconds == 6
MaxCalls == 3

NewOllamaManager ==
    [isInstalled |-> FALSE, isRunning |-> FALSE,
     pc |-> "idle", result |-> "none", spawned |-> FALSE,
     calls |-> 0, clock |-> 0, service |-> "down"]

\* checkService: GET serviceURL/api/version, and the flag it leaves.
checkService(m) ==
    IF m.service = "up"
    THEN [m EXCEPT !.isRunning = TRUE]
    ELSE [m EXCEPT !.isRunning = FALSE]

Return(m, result) == [m EXCEPT !.pc = "returned", !.result = result]

\* EnsureOllamaAvailable is called.
EnsureOllamaAvailable ==
    /\ om.pc \in {"idle", "returned"}
    /\ om.calls < MaxCalls
    /\ om' = [om EXCEPT !.pc = "checkInstallation", !.result = "none",
                        !.spawned = FALSE, !.clock = 0, !.calls = @ + 1]
    /\ UNCHANGED notOm

\* checkInstallation: the binary is found on PATH or at binaryPath, or not;
\* when it is not, installOllama follows.
CheckInstallation(found) ==
    /\ om.pc = "checkInstallation"
    /\ om' = IF found
             THEN [om EXCEPT !.isInstalled = TRUE, !.pc = "checkService"]
             ELSE [om EXCEPT !.isInstalled = FALSE, !.pc = "installOllama"]
    /\ UNCHANGED notOm

\* installOllama: the platform's installer succeeds or fails.
InstallOllama(ok) ==
    /\ om.pc = "installOllama"
    /\ om' = IF ok
             THEN [om EXCEPT !.isInstalled = TRUE, !.pc = "checkService"]
             ELSE Return(om, "failed to install Ollama")
    /\ UNCHANGED notOm

\* The first checkService: nil returns nil, an error leaves isRunning false
\* and startOllama follows.
CheckService ==
    /\ om.pc = "checkService"
    /\ LET m == checkService(om)
       IN  om' = IF m.isRunning THEN Return(m, "nil")
                 ELSE [m EXCEPT !.pc = "startOllama"]
    /\ UNCHANGED notOm

\* startOllama: cmd.Start() of `ollama serve`.
StartOllama(ok) ==
    /\ om.pc = "startOllama"
    /\ om' = IF ok
             THEN [om EXCEPT !.spawned = TRUE, !.clock = 0, !.pc = "sleep"]
             ELSE Return(om, "failed to start Ollama")
    /\ UNCHANGED notOm

\* startOllama: one second of time.Sleep(2 * time.Second) passes.
Sleeps ==
    /\ om.pc = "sleep"
    /\ om.clock < SleepSeconds
    /\ om' = [om EXCEPT !.clock = @ + 1]
    /\ UNCHANGED notOm

\* startOllama: the sleep is over; the one checkService after it decides.
ChecksAfterSleep ==
    /\ om.pc = "sleep"
    /\ om.clock = SleepSeconds
    /\ LET m == checkService(om)
       IN  om' = IF m.isRunning THEN Return(m, "nil")
                 ELSE Return(m, "failed to start Ollama")
    /\ UNCHANGED notOm

\* The endpoint starts to listen, not yet answering 200.
ServiceLoads ==
    /\ om.service = "down"
    /\ om' = [om EXCEPT !.service = "loading"]
    /\ UNCHANGED notOm

\* The endpoint starts to answer 200.
ServiceComesUp ==
    /\ om.service \in {"down", "loading"}
    /\ om' = [om EXCEPT !.service = "up"]
    /\ UNCHANGED notOm

\* Time goes on after the call that spawned has returned.
TimePasses ==
    /\ om.pc = "returned"
    /\ om.spawned
    /\ om.clock < MaxSeconds
    /\ om' = [om EXCEPT !.clock = @ + 1]
    /\ UNCHANGED notOm

\* The steps of a call in progress.
OmCallSteps ==
    \/ \E found \in BOOLEAN : CheckInstallation(found)
    \/ \E ok \in BOOLEAN : InstallOllama(ok)
    \/ CheckService
    \/ \E ok \in BOOLEAN : StartOllama(ok)
    \/ Sleeps
    \/ ChecksAfterSleep

OmNext ==
    \/ EnsureOllamaAvailable
    \/ \E found \in BOOLEAN : CheckInstallation(found)
    \/ \E ok \in BOOLEAN : InstallOllama(ok)
    \/ CheckService
    \/ \E ok \in BOOLEAN : StartOllama(ok)
    \/ Sleeps
    \/ ChecksAfterSleep
    \/ ServiceLoads
    \/ ServiceComesUp
    \/ TimePasses

---------------------------------------------------------------------------
(* The AI context's command history (pkg/intel/commands.go): AddAction   *)
(* and the history step of updateContextManager.  all is the list of      *)
(* every action ever recorded, in call order.                             *)

MaxDepth == 5
MaxActions == 5
HistoryLimit == 3

ContextDepths == 1 .. MaxDepth
ActionCommands == {"scan", "set"}

Action(command, success) == [Command |-> command, Success |-> success]

\* The last n elements of s.
LastN(s, n) == SubSeq(s, Len(s) - n + 1, Len(s))

Min(a, b) == IF a < b THEN a ELSE b

\* One line of the fragment: "- <status> <command> <args>".
HistoryLine(action) ==
    <<IF action.Success THEN "ok" ELSE "failed", action.Command>>

HistoryLines(actions) == [k \in 1 .. Len(actions) |-> HistoryLine(actions[k])]

NoIntelSystem ==
    [created |-> FALSE, ContextDepth |-> 0, RecentActions |-> <<>>,
     all |-> <<>>, history |-> <<>>, op |-> "none"]

\* NewIntelSystem(config), with a ContextDepth that ValidateContextDepth
\* accepts.
NewIntelSystem(depth) ==
    /\ ~intel.created
    /\ intel' = [intel EXCEPT !.created = TRUE, !.ContextDepth = depth,
                              !.op = "NewIntelSystem"]
    /\ UNCHANGED notIntel

\* AddAction: append, then keep the last ContextDepth actions.
AddAction(command, success) ==
    /\ intel.created
    /\ Len(intel.all) < MaxActions
    /\ LET appended == Append(intel.RecentActions, Action(command, success))
       IN  intel' = [intel EXCEPT
                       !.RecentActions =
                           IF Len(appended) > intel.ContextDepth
                           THEN LastN(appended, intel.ContextDepth)
                           ELSE appended,
                       !.all = Append(@, Action(command, success)),
                       !.op = "AddAction"]
    /\ UNCHANGED notIntel

\* updateContextManager, step 4: the "history" fragment replaces the one of
\* the call before; with no recent action none is added.
updateContextManager ==
    /\ intel.created
    /\ LET recentActions ==
               IF Len(intel.RecentActions) > HistoryLimit
               THEN LastN(intel.RecentActions, HistoryLimit)
               ELSE intel.RecentActions
       IN  intel' = [intel EXCEPT
                       !.history = IF Len(intel.RecentActions) > 0
                                   THEN HistoryLines(recentActions)
                                   ELSE @,
                       !.op = "updateContextManager"]
    /\ UNCHANGED notIntel

IntelNext ==
    \/ \E depth \in ContextDepths : NewIntelSystem(depth)
    \/ \E command \in ActionCommands, success \in BOOLEAN :
          AddAction(command, success)
    \/ updateContextManager

---------------------------------------------------------------------------
(* String utilities (pkg/utils/strings.go).  A Go string is a sequence of  *)
(* bytes; a character outside ASCII takes two or three of them.  Inputs    *)
(* are written as sequences of characters and encoded to bytes.            *)

MaxChars == 2
MaxMask == 2

LowerLetters == {"a", "p", "e_acute"}
UpperLetters == {"A", "P", "E_acute"}
Chars == LowerLetters \cup UpperLetters \cup {"1"}

\* UTF-8 encoding of a character.
BytesOf(c) ==
    CASE c = "e_acute" -> <<"C3", "A9">>
      [] c = "E_acute" -> <<"C3", "89">>
      [] c = "A_tilde" -> <<"C3", "83">>
      [] c = "RuneError" -> <<"EF", "BF", "BD">>
      [] OTHER -> <<c>>

RECURSIVE Encode(_)
Encode(chars) ==
    IF chars = <<>> THEN <<>>
    ELSE BytesOf(Head(chars)) \o Encode(Tail(chars))

\* Decoding as `range s` does it: an invalid byte is one RuneError.
RECURSIVE Decode(_)
Decode(bytes) ==
    IF bytes = <<>> THEN <<>>
    ELSE IF Head(bytes) = "C3" /\ Len(bytes) >= 2 /\ bytes[2] \in {"A9", "89", "83"}
         THEN <<CASE bytes[2] = "A9" -> "e_acute"
                  [] bytes[2] = "89" -> "E_acute"
                  [] OTHER -> "A_tilde">> \o Decode(SubSeq(bytes, 3, Len(bytes)))
    ELSE IF Head(bytes) \in {"C3", "A9", "89", "83"}
         THEN <<"RuneError">> \o Decode(Tail(bytes))
    ELSE <<Head(bytes)>> \o Decode(Tail(bytes))

\* unicode.ToLower and unicode.ToUpper of one character.
LowerChar(c) ==
    CASE c = "A" -> "a" [] c = "P" -> "p" [] c = "E_acute" -> "e_acute"
      [] OTHER -> c
UpperChar(c) ==
    CASE c = "a" -> "A" [] c = "p" -> "P" [] c = "e_acute" -> "E_acute"
      [] OTHER -> c

\* strings.ToLower and strings.ToUpper of a byte string.
StringsToLower(bytes) ==
    LET d == Decode(bytes) IN Encode([k \in 1 .. Len(d) |-> LowerChar(d[k])])
StringsToUpper(bytes) ==
    LET d == Decode(bytes) IN Encode([k \in 1 .. Len(d) |-> UpperChar(d[k])])

\* string(b) of one byte b: the character whose code point is b.
StringOfByte(b) ==
    CASE b = "C3" -> BytesOf("A_tilde")
      [] OTHER -> <<b>>

Dots == <<".", ".", ".">>
Panic == <<"panic: slice bounds out of range">>

\* utils.MaskString
MaskString(s, prefixLen, suffixLen) ==
    IF Len(s) < prefixLen + suffixLen THEN Dots
    ELSE IF prefixLen < 0 \/ prefixLen > Len(s) \/ suffixLen < 0 \/ suffixLen > Len(s)
         THEN Panic
    ELSE SubSeq(s, 1, prefixLen) \o Dots \o SubSeq(s, Len(s) - suffixLen + 1, Len(s))

\* utils.GenerateCaseVariations: the keys of variationsSet.  The slice it
\* returns lists them in the order of a map iteration.
GenerateCaseVariations(word) ==
    IF Len(word) = 0 THEN {}
    ELSE {StringsToLower(word),
          StringsToUpper(StringOfByte(word[1])) \o StringsToLower(Tail(word)),
          StringsToUpper(word)}

NoUtilCall == [fn |-> "none", s |-> <<>>, prefixLen |-> 0, suffixLen |-> 0,
               masked |-> <<>>, variations |-> {}]

RECURSIVE CharStrings(_)
CharStrings(n) ==
    IF n = 0 THEN {<<>>}
    ELSE LET shorter == CharStrings(n - 1)
         IN  shorter \cup {Append(s, c) : s \in shorter, c \in Chars}

MaskLens == -1 .. MaxMask

\* A call of MaskString with the string built from the characters chars.
MaskStringCall(chars, prefixLen, suffixLen) ==
    /\ util.fn = "none"
    /\ util' = [fn |-> "MaskString", s |-> chars,
                prefixLen |-> prefixLen, suffixLen |-> suffixLen,
                masked |-> MaskString(Encode(chars), prefixLen, suffixLen),
                variations |-> {}]
    /\ UNCHANGED notUtil

\* A call of GenerateCaseVariations.
GenerateCaseVariationsCall(chars) ==
    /\ util.fn = "none"
    /\ util' = [fn |-> "GenerateCaseVariations", s |-> chars,
                prefixLen |-> 0, suffixLen |-> 0, masked |-> <<>>,
                variations |-> GenerateCaseVariations(Encode(chars))]
    /\ UNCHANGED notUtil

UtilNext ==
    \/ \E chars \in CharStrings(MaxChars), p \in MaskLens, q \in MaskLens :
          MaskStringCall(chars, p, q)
    \/ \E chars \in CharStrings(MaxChars) : GenerateCaseVariationsCall(chars)

---------------------------------------------------------------------------
(* Config.SaveToFile and Config.LoadFromFile (pkg/config/config.go).  A    *)
(* value of the map is a Go value with its dynamic type; the file holds    *)
(* the YAML document yaml.Marshal wrote: per key a scalar, plain or        *)
(* quoted, or a sequence of scalars.  The text of a scalar is a sequence   *)
(* of tokens: <<"1", ".", "5">> is the text 1.5, <<"x">> the text x.       *)

GoString(text) == [type |-> "string", v |-> text, elems |-> <<>>]
GoInt(digits) == [type |-> "int", v |-> <<digits>>, elems |-> <<>>]
GoFloat64(whole, frac) == [type |-> "float64", v |-> <<whole, ".", frac>>, elems |-> <<>>]
GoBool(b) == [type |-> "bool", v |-> IF b THEN <<"true">> ELSE <<"false">>, elems |-> <<>>]
GoList(elems) == [type |-> "[]interface {}", v |-> <<>>, elems |-> elems]

Scalar(style, text) == [kind |-> "scalar", style |-> style, text |-> text, nodes |-> <<>>]
Sequence(nodes) == [kind |-> "sequence", style |-> "block", text |-> <<>>, nodes |-> nodes]

\* Runs of decimal digits.
Numerals == {"0", "1", "2", "5", "8080"}

\* The Go value a plain scalar resolves to when decoded into interface{}.
Resolve(text) ==
    CASE text \in {<<"true">>, <<"false">>} -> GoBool(text = <<"true">>)
      [] Len(text) = 1 /\ text[1] \in Numerals -> GoInt(text[1])
      [] Len(text) = 3 /\ text[2] = "." /\ text[1] \in Numerals /\ text[3] \in Numerals ->
            GoFloat64(text[1], text[3])
      [] OTHER -> GoString(text)

\* yaml.Marshal of a scalar value: a string is quoted when its plain form
\* would resolve to something else; a float64 is written by
\* strconv.FormatFloat(f, 'g', -1, 64), which drops a zero fraction.
MarshalScalar(value) ==
    CASE value.type = "string" ->
            Scalar(IF Resolve(value.v).type = "string" THEN "plain" ELSE "quoted",
                   value.v)
      [] value.type = "float64" ->
            Scalar("plain", IF value.v[3] = "0" THEN <<value.v[1]>> ELSE value.v)
      [] OTHER -> Scalar("plain", value.v)

MarshalValue(value) ==
    IF value.type = "[]interface {}"
    THEN Sequence([k \in 1 .. Len(value.elems) |-> MarshalScalar(value.elems[k])])
    ELSE MarshalScalar(value)

\* yaml.Marshal(c.data)
YamlMarshal(data) == [key \in DOMAIN data |-> MarshalValue(data[key])]

UnmarshalScalar(node) ==
    IF node.style = "quoted" THEN GoString(node.text) ELSE Resolve(node.text)

UnmarshalValue(node) ==
    IF node.kind = "sequence"
    THEN GoList([k \in 1 .. Len(node.nodes) |-> UnmarshalScalar(node.nodes[k])])
    ELSE UnmarshalScalar(node)

\* yaml.Unmarshal(doc, &data): data is not nil, so the decoder sets the
\* keys of the document in the map it is given and leaves its other keys.
YamlUnmarshal(doc, data) ==
    [key \in DOMAIN doc \cup DOMAIN data |->
        IF key \in DOMAIN doc THEN UnmarshalValue(doc[key]) ELSE data[key]]

NoFile == [exists |-> FALSE, doc |-> EmptyMap]

NewConfigFile ==
    [data |-> EmptyMap, file |-> NoFile, saved |-> EmptyMap,
     loaded |-> EmptyMap, op |-> "New", err |-> FALSE]

ConfigKeys == {"port", "debug"}
ScalarValues ==
    {GoString(<<"x">>), GoString(<<"8080">>), GoString(<<"true">>),
     GoInt("8080"), GoFloat64("1", "5"), GoFloat64("2", "0"), GoBool(TRUE)}
ConfigValues ==
    ScalarValues \cup {GoList(<<GoString(<<"x">>), GoInt("8080")>>)}
LoaderValues == {GoString(<<"x">>)}

\* Set on the Config that is saved.
ConfigSet(key, value) ==
    /\ ~cfg.file.exists
    /\ cfg' = [cfg EXCEPT !.data = MapPut(cfg.data, key, value), !.op = "Set"]
    /\ UNCHANGED notCfg

\* SaveToFile
SaveToFile ==
    /\ ~cfg.file.exists
    /\ cfg' = [cfg EXCEPT !.file = [exists |-> TRUE, doc |-> YamlMarshal(cfg.data)],
                          !.saved = cfg.data, !.op = "SaveToFile"]
    /\ UNCHANGED notCfg

\* Set on the Config that loads, before it loads.
LoaderSet(key, value) ==
    /\ cfg.op # "LoadFromFile"
    /\ cfg' = [cfg EXCEPT !.loaded = MapPut(cfg.loaded, key, value),
                          !.op = IF cfg.file.exists THEN "LoaderSet" ELSE @]
    /\ UNCHANGED notCfg

\* LoadFromFile: os.ReadFile fails when there is no file.
LoadFromFile ==
    /\ cfg.op # "LoadFromFile"
    /\ cfg' = IF cfg.file.exists
              THEN [cfg EXCEPT !.loaded = YamlUnmarshal(cfg.file.doc, cfg.loaded),
                               !.op = "LoadFromFile", !.err = FALSE]
              ELSE [cfg EXCEPT !.op = "LoadFromFile", !.err = TRUE]
    /\ UNCHANGED notCfg

CfgNext ==
    \/ \E key \in ConfigKeys, value \in ConfigValues : ConfigSet(key, value)
    \/ SaveToFile
    \/ \E key \in ConfigKeys, value \in LoaderValues : LoaderSet(key, value)
    \/ LoadFromFile

---------------------------------------------------------------------------
(* intel.ContextManager: PruneHistory, Clear and BuildPrompt               *)
(* (pkg/intel/context.go).  A prompt is the sequence of the fragments      *)
(* written, each followed by a blank line, and its closing section.        *)

PruneCutoffMinutes == 30
MaxHours == 2

Queries == {"why"}

\* getTypePriority with the ranks of prompt templates and state exchanged.
getTypePriorityStateFirst(contextType) ==
    CASE contextType = ContextTypeSystem -> 100
      [] contextType = ContextTypeDomain -> 90
      [] contextType = ContextTypePrompt -> 70
      [] contextType = ContextTypeState -> 80
      [] contextType = ContextTypeHistory -> 60
      [] contextType = ContextTypeUser -> 50
      [] OTHER -> 40

\* getTypePriority
getTypePriority(contextType) ==
    CASE contextType = ContextTypeSystem -> 100
      [] contextType = ContextTypeDomain -> 90
      [] contextType = ContextTypePrompt -> 80
      [] contextType = ContextTypeState -> 70
      [] contextType = ContextTypeHistory -> 60
      [] contextType = ContextTypeUser -> 50
      [] OTHER -> 40

\* The comparison BuildPrompt sorts by.
promptLess(x, y) ==
    IF x.Type # y.Type
    THEN getTypePriority(x.Type) > getTypePriority(y.Type)
    ELSE RatLess(y.Relevance, x.Relevance)

\* The results sort.Slice can give under promptLess.
PromptArrangements(its) ==
    LET n == Len(its)
        perms == {f \in [1..n -> 1..n] : \A i, j \in 1..n : f[i] = f[j] => i = j}
        arr(f) == [i \in 1..n |-> its[f[i]]]
    IN  {arr(f) : f \in {g \in perms :
            \A i, j \in 1..n : i < j => ~promptLess(its[g[j]], its[g[i]])}}

\* The fragment written for an item: its content, under the item's id.
Fragment(item) == [ID |-> item.ID, Content |-> item.Content]

\* The loop of BuildPrompt over the sorted items.
RECURSIVE writeItems(_)
writeItems(sorted) ==
    IF sorted = <<>> THEN <<>>
    ELSE IF Head(sorted).Type = ContextTypeUser THEN writeItems(Tail(sorted))
    ELSE <<Fragment(Head(sorted))>> \o writeItems(Tail(sorted))

Closing(userQuery) == <<"Query: ", userQuery, "\n\nResponse:">>

NoPrompt == [count |-> 0, query |-> "", sections |-> <<>>, closing |-> <<>>]

\* item.Timestamp.Before(cutoff), cutoff = time.Now().Add(-30 * time.Minute)
BeforeCutoff(item, t) ==
    item.Timestamp * ClockUnitMinutes < t * ClockUnitMinutes - PruneCutoffMinutes

\* pruned without the test of IsEssential.
prunedEssentialToo(item, t) ==
    item.Type = ContextTypeHistory /\ BeforeCutoff(item, t)

\* The test of the loop of PruneHistory.
pruned(item, t) ==
    item.Type = ContextTypeHistory /\ BeforeCutoff(item, t) /\ ~item.IsEssential

\* The loop of PruneHistory that drops an item and keeps its tokens in the total.
RECURSIVE pruneLoopKeepsTokens(_, _, _, _)
pruneLoopKeepsTokens(its, cur, t, newItems) ==
    IF its = <<>> THEN [items |-> newItems, currentTokens |-> cur]
    ELSE IF pruned(Head(its), t)
         THEN pruneLoopKeepsTokens(Tail(its), cur, t, newItems)
    ELSE pruneLoopKeepsTokens(Tail(its), cur, t, Append(newItems, Head(its)))

\* The loop of PruneHistory.
RECURSIVE pruneLoop(_, _, _, _)
pruneLoop(its, cur, t, newItems) ==
    IF its = <<>> THEN [items |-> newItems, currentTokens |-> cur]
    ELSE IF pruned(Head(its), t)
         THEN pruneLoop(Tail(its), cur - Head(its).TokenCount, t, newItems)
    ELSE pruneLoop(Tail(its), cur, t, Append(newItems, Head(its)))

\* PruneHistory()
PruneHistory ==
    /\ ops < MaxOps
    /\ ops' = ops + 1
    /\ LET r == pruneLoop(items, currentTokens, now, <<>>)
       IN  /\ items' = r.items
           /\ currentTokens' = r.currentTokens
    /\ ctxOp' = CtxOpOf("PruneHistory", "", 0, -1)
    /\ pass' = [NoPass EXCEPT !.before = items, !.tokens = currentTokens]
    /\ UNCHANGED <<maxTokens, now, passes, notCtx>>

\* Clear()
Clear ==
    /\ ops < MaxOps
    /\ ops' = ops + 1
    /\ items' = <<>>
    /\ currentTokens' = 0
    /\ ctxOp' = CtxOpOf("Clear", "", 0, -1)
    /\ pass' = NoPass
    /\ UNCHANGED <<maxTokens, now, passes, notCtx>>

\* BuildPrompt(userQuery, promptType): the scores of the held items are aged
\* in place, a sorted copy is written out.
BuildPrompt(userQuery) ==
    /\ ops < MaxOps
    /\ ops' = ops + 1
    /\ LET aged == updateRelevanceScores(items, now)
       IN  /\ items' = aged
           /\ \E sorted \in PromptArrangements(aged) :
                 prompt' = [count |-> prompt.count + 1,
                            query |-> userQuery,
                            sections |-> writeItems(sorted),
                            closing |-> Closing(userQuery)]
    /\ ctxOp' = CtxOpOf("BuildPrompt", "", 0, -1)
    /\ pass' = NoPass
    /\ UNCHANGED <<currentTokens, maxTokens, now, passes, restPrompt,
                   regVars, cbVars, compVars>>

\* An hour goes by between two calls.
HourPasses ==
    /\ now < MaxHours
    /\ now' = now + 1
    /\ UNCHANGED <<items, currentTokens, maxTokens, ops, passes, ctxOp, pass, notCtx>>

\* Every exported method that changes the manager.
CtxAllNext ==
    \/ Tick
    \/ \E id \in CallerIDs, ty \in CtxTypesUsed, c \in ContentLens, e \in BOOLEAN :
          AddContext(id, ty, c, e)
    \/ \E m \in Budgets : SetMaxTokens(m)
    \/ PruneHistory
    \/ Clear
    \/ \E q \in Queries : BuildPrompt(q)

\* Fragments of every type, and prompts built from them.
PromptNext ==
    \/ HourPasses
    \/ \E id \in CallerIDs, ty \in ContextTypes :
          AddContext(id, ty, 5, FALSE)
    \/ \E q \in Queries : BuildPrompt(q)

---------------------------------------------------------------------------
(* IntelSystem.Initialize and the calls it gates                           *)
(* (pkg/intel/commands.go).  Initialize runs under the mutex, so           *)
(* a call is one step; the outcome of each of its steps is an input.       *)

MaxRequests == 2

Step(name, ok) == [step |-> name, ok |-> ok]

NotInitialized == "Intel system not initialized"
NotInitializedRunStart == "Intel system not initialized. Run 'intel start' first"

\* Initialize past its first test, with ensureModel's error ignored.
initializeStepsModelIgnored(ensureOk, clientOk, validateOk, autoDownload, modelOk) ==
    IF ~ensureOk
    THEN [steps |-> <<Step("EnsureOllamaAvailable", FALSE)>>, err |-> "EnsureOllamaAvailable"]
    ELSE IF ~clientOk
    THEN [steps |-> <<Step("EnsureOllamaAvailable", TRUE),
                      Step("ClientFromEnvironment", FALSE)>>,
          err |-> "client_creation_failed"]
    ELSE [steps |-> <<Step("EnsureOllamaAvailable", TRUE),
                      Step("ClientFromEnvironment", TRUE),
                      Step("ValidateSystemRequirements", validateOk)>>
                    \o (IF autoDownload THEN <<Step("ensureModel", modelOk)>> ELSE <<>>),
          err |-> "nil"]

\* Initialize past its first test: the steps run, in order, and the error
\* returned.  A failed ValidateSystemRequirements prints a warning only.
initializeSteps(ensureOk, clientOk, validateOk, autoDownload, modelOk) ==
    IF ~ensureOk
    THEN [steps |-> <<Step("EnsureOllamaAvailable", FALSE)>>, err |-> "EnsureOllamaAvailable"]
    ELSE IF ~clientOk
    THEN [steps |-> <<Step("EnsureOllamaAvailable", TRUE),
                      Step("ClientFromEnvironment", FALSE)>>,
          err |-> "client_creation_failed"]
    ELSE IF autoDownload
    THEN [steps |-> <<Step("EnsureOllamaAvailable", TRUE),
                      Step("ClientFromEnvironment", TRUE),
                      Step("ValidateSystemRequirements", validateOk),
                      Step("ensureModel", modelOk)>>,
          err |-> IF modelOk THEN "nil" ELSE "ensureModel"]
    ELSE [steps |-> <<Step("EnsureOllamaAvailable", TRUE),
                      Step("ClientFromEnvironment", TRUE),
                      Step("ValidateSystemRequirements", validateOk)>>,
          err |-> "nil"]

NewSystem ==
    [initialized |-> FALSE, requests |-> 0,
     op |-> "New", wasInitialized |-> FALSE, requestsBefore |-> 0,
     steps |-> <<>>, ret |-> "nil",
     setBy |-> <<>>, succeeded |-> FALSE, everInitialized |-> FALSE]

\* Initialize()
Initialize(ensureOk, clientOk, validateOk, autoDownload, modelOk) ==
    /\ LET r == IF sys.initialized THEN [steps |-> <<>>, err |-> "nil"]
                ELSE initializeSteps(ensureOk, clientOk, validateOk, autoDownload, modelOk)
           sets == ~sys.initialized /\ r.err = "nil"
       IN  sys' = [sys EXCEPT
                     !.initialized = @ \/ sets,
                     !.op = "Initialize",
                     !.wasInitialized = sys.initialized,
                     !.requestsBefore = sys.requests,
                     !.steps = r.steps,
                     !.ret = r.err,
                     !.setBy = IF sets THEN r.steps ELSE @,
                     !.succeeded = @ \/ r.err = "nil",
                     !.everInitialized = @ \/ sets]
    /\ UNCHANGED notSys

QueryMethods ==
    {"Analyze", "Suggest", "Explain",
     "AnalyzeWithStreaming", "SuggestWithStreaming", "ExplainWithStreaming"}

\* Analyze, Suggest, Explain and their streaming forms: the test of
\* IsInitialized, then buildPrompt and queryModel with its outcome.
Query(method, outcome) ==
    /\ method \in QueryMethods
    /\ sys.requests < MaxRequests
    /\ sys' = [sys EXCEPT
                 !.op = method,
                 !.wasInitialized = sys.initialized,
                 !.requestsBefore = sys.requests,
                 !.steps = <<>>,
                 !.requests = IF sys.initialized THEN @ + 1 ELSE @,
                 !.ret = IF sys.initialized THEN outcome ELSE NotInitialized]
    /\ UNCHANGED notSys

\* The `intel context` subcommand.
handleContext ==
    /\ sys' = [sys EXCEPT
                 !.op = "handleContext",
                 !.wasInitialized = sys.initialized,
                 !.requestsBefore = sys.requests,
                 !.steps = <<>>,
                 !.ret = IF sys.initialized THEN "nil" ELSE NotInitializedRunStart]
    /\ UNCHANGED notSys

SysNext ==
    \/ \E ensureOk, clientOk, validateOk, autoDownload, modelOk \in BOOLEAN :
          Initialize(ensureOk, clientOk, validateOk, autoDownload, modelOk)
    \/ \E method \in QueryMethods, outcome \in {"nil", "query failed"} :
          Query(method, outcome)
    \/ handleContext

---------------------------------------------------------------------------
(* Start and Stop of ProgressSpinner and ProgressCounter called from       *)
(* several goroutines (pkg/output/colors.go).  The two types have the same *)
(* Start, the same Stop and the same select loop; done is unbuffered, so a *)
(* send completes only together with a receive of an animation goroutine.  *)

MaxStarts == 2

IndicatorKinds == {"ProgressSpinner", "ProgressCounter"}

NoIndicator ==
    [kind |-> "none", isRunning |-> 0, live |-> 0, starts |-> 0,
     pc |-> [g \in Goroutines |-> "idle"],
     noop |-> [g \in Goroutines |-> FALSE],
     returned |-> [g \in Goroutines |-> FALSE]]

\* NewSpinner(message) / NewCounter(message, total)
NewIndicator(kind) ==
    /\ ind.kind = "none"
    /\ ind' = [ind EXCEPT !.kind = kind]
    /\ UNCHANGED notInd

\* Start: atomic.StoreInt32(p.isRunning, 1)
StartStores(g) ==
    /\ ind.kind # "none"
    /\ ind.pc[g] = "idle"
    /\ ind.starts < MaxStarts
    /\ ind' = [ind EXCEPT !.isRunning = 1, !.starts = @ + 1, !.pc[g] = "go"]
    /\ UNCHANGED notInd

\* Start: go p.spin() / go p.display()
StartGoes(g) ==
    /\ ind.pc[g] = "go"
    /\ ind' = [ind EXCEPT !.live = @ + 1, !.pc[g] = "idle"]
    /\ UNCHANGED notInd

\* Stop: if atomic.LoadInt32(p.isRunning) == 1 { ... }; when the flag is
\* not set Stop returns at once.
StopLoads(g) ==
    /\ ind.kind # "none"
    /\ ind.pc[g] = "idle"
    /\ ind' = IF ind.isRunning = 1
              THEN [ind EXCEPT !.pc[g] = "store",
                               !.noop[g] = FALSE, !.returned[g] = FALSE]
              ELSE [ind EXCEPT !.noop[g] = TRUE, !.returned[g] = TRUE]
    /\ UNCHANGED notInd

\* Stop: atomic.StoreInt32(p.isRunning, 0); next is p.done <- true
StopStores(g) ==
    /\ ind.pc[g] = "store"
    /\ ind' = [ind EXCEPT !.isRunning = 0, !.pc[g] = "send"]
    /\ UNCHANGED notInd

\* Stop: p.done <- true meets case <-p.done of one animation goroutine,
\* which returns; Stop clears the line and returns.
StopSends(g) ==
    /\ ind.pc[g] = "send"
    /\ ind.live > 0
    /\ ind' = [ind EXCEPT !.live = @ - 1, !.pc[g] = "idle", !.returned[g] = TRUE]
    /\ UNCHANGED notInd

\* The steps of calls that have been entered.
StopSteps == \E g \in Goroutines : StartGoes(g) \/ StopStores(g) \/ StopSends(g)

StopNext ==
    \/ \E kind \in IndicatorKinds : NewIndicator(kind)
    \/ \E g \in Goroutines : StartStores(g)
    \/ \E g \in Goroutines : StartGoes(g)
    \/ \E g \in Goroutines : StopLoads(g)
    \/ \E g \in Goroutines : StopStores(g)
    \/ \E g \in Goroutines : StopSends(g)

---------------------------------------------------------------------------
(* Specifications: one per component, the other components at rest.        *)

\* NewRegistry(), NewCompletionBuilder(), a console not yet run, and
\* NewContextManager(maxTokens).
Init ==
    /\ commands = EmptyMap
    /\ lastCall = [op |-> "NewRegistry", name |-> <<>>, args |-> <<>>,
                   registry |-> EmptyMap]
    /\ invoked = <<>>
    /\ ret = [kind |-> "nil", msg |-> <<>>]
    /\ cb = NewCompletionBuilder
    /\ cbOp = "NewCompletionBuilder"
    /\ completer = NoCompleter
    /\ completeCalls = {}
    /\ line = <<>>
    /\ offered = {}
    /\ compOp = "New"
    /\ items = <<>>
    /\ currentTokens = 0
    /\ maxTokens \in InitialBudgets
    /\ now = 0
    /\ ops = 0
    /\ passes = 0
    /\ ctxOp = CtxOpOf("NewContextManager", "", 0, -1)
    /\ pass = NoPass
    /\ qm = NoQuery
    /\ sel = NoSelection
    /\ con = NewConsole
    /\ state = NewStore
    /\ config = NewStore
    /\ spinner = NewSpinner
    /\ counter = NewCounter
    /\ om = NewOllamaManager
    /\ intel = NoIntelSystem
    /\ util = NoUtilCall
    /\ cfg = NewConfigFile
    /\ prompt = NoPrompt
    /\ sys = NewSystem
    /\ ind = NoIndicator

\* The registry: Register and Execute.
SpecRegistry == Init /\ [][RegNext]_vars

\* The completion builder.
SpecBuilder == Init /\ [][CbNext]_vars

\* Registration, Console.Run's completer and the user at the prompt.
SpecCompletion == Init /\ [][CompNext]_vars

\* The context manager driven through its exported methods.
SpecContext == Init /\ [][CtxNext]_vars

\* The same, with optimize also called directly.
OptNext ==
    \/ CtxNext
    \/ OptimizeCall

SpecOptimize == Init /\ [][OptNext]_vars

\* Queries of the model, one after another.
SpecQuery == Init /\ [][QmNext]_vars

\* Calls of AutoSelectModel.
SpecSelect == Init /\ [][SelNext]_vars

\* A console: commands added, then Run.
SpecConsole == Init /\ [][ConNext]_vars

\* Goroutines calling the methods of one State and of one Config.
SpecStore == Init /\ [][StoreNext]_vars

\* A spinner and a counter, each with its caller and its goroutine.
SpecIndicator == Init /\ [][IndNext]_vars

\* Calls of EnsureOllamaAvailable and the service.  A call in progress goes
\* on to its return; nothing obliges the caller to call again, nor the
\* service to come up.
SpecOllama == Init /\ [][OmNext]_vars /\ WF_vars(OmCallSteps)

\* An IntelSystem recording actions and building its context.
SpecIntel == Init /\ [][IntelNext]_vars

\* One call of a string utility on any input.
SpecUtils == Init /\ [][UtilNext]_vars

\* A Config is filled and saved; a Config loads the file.
SpecConfigFile == Init /\ [][CfgNext]_vars

\* The context manager under every method that changes it.
SpecContextAll == Init /\ [][CtxAllNext]_vars

\* Prompts built over fragments of every type, hours apart.
SpecPrompt == Init /\ [][PromptNext]_vars

\* Initialize and the calls it gates, in any order.
SpecSystem == Init /\ [][SysNext]_vars

\* Start and Stop from several goroutines; a call that has been entered
\* takes its next step when it can.
SpecStop == Init /\ [][StopNext]_vars /\ WF_vars(StopSteps)

---------------------------------------------------------------------------
(* Properties of the registry. *)

\* The keys of a registry that are letter-case variants of a name.
Variants(registry, name) ==
    {k \in DOMAIN registry : ToLower(k) = ToLower(name)}

\* C1: Execute looks the command up case-insensitively: whatever the letter
\* case a command was registered under, Execute of any letter-case variant of
\* its name invokes that command's handler with the arguments given, once,
\* and returns exactly what the handler returned.
C1_CaseInsensitiveExecute ==
    lastCall.op = "Execute" =>
        \A k \in Variants(lastCall.registry, lastCall.name) :
            /\ invoked = <<[handler |-> lastCall.registry[k].Handler,
                            args |-> lastCall.args]>>
            /\ ret = HandlerExecute(lastCall.registry[k].Handler, lastCall.args)

\* C2: Execute of a name no command is registered under (in any letter case)
\* returns an error whose message contains the name as attempted, invokes no
\* handler, leaves the registry as it found it, and does not panic.
C2_UnknownCommand ==
    (lastCall.op = "Execute" /\ Variants(lastCall.registry, lastCall.name) = {}) =>
        /\ ret.kind = "error"
        /\ Contains(ret.msg, lastCall.name)
        /\ invoked = <<>>
        /\ commands = lastCall.registry

\* An unregistered name with an upper-case letter was executed against a
\* registry that holds other commands.
C2_Witness ==
    /\ lastCall.op = "Execute"
    /\ Variants(lastCall.registry, lastCall.name) = {}
    /\ lastCall.registry # EmptyMap
    /\ ToLower(lastCall.name) # lastCall.name
    /\ ret.kind = "error"

---------------------------------------------------------------------------
(* Properties of the context manager. *)

RECURSIVE SumTokens(_)
SumTokens(its) ==
    IF its = <<>> THEN 0 ELSE its[1].TokenCount + SumTokens(Tail(its))

\* An item without its relevance score, which every aging pass rewrites.
Unscored(item) == [item EXCEPT !.Relevance = RatOne]
UnscoredSet(its) == {Unscored(its[i]) : i \in 1..Len(its)}
EssentialSet(its) == {x \in UnscoredSet(its) : x.IsEssential}
NonEssential(its) == {i \in 1..Len(its) : ~its[i].IsEssential}

\* C3: at most one held item carries a given id, every held item's token
\* count is that of its own content (length / 4), and the running total is
\* the sum over the held items; after an AddContext whose id was already
\* present, the item still held under that id is the new content.
C3_ReplaceOnce ==
    /\ \A i, j \in 1..Len(items) : items[i].ID = items[j].ID => i = j
    /\ \A i \in 1..Len(items) : items[i].TokenCount = items[i].Content \div 4
    /\ currentTokens = SumTokens(items)
    /\ ctxOp.op = "AddContext" =>
          \A i \in 1..Len(items) :
              items[i].ID = ctxOp.id => items[i].Content = ctxOp.content

\* An AddContext replaced a two-token item by a one-token one, next to
\* another held item of one token.
C3_Witness ==
    /\ ctxOp.op = "AddContext"
    /\ ctxOp.old = 2
    /\ \E i \in 1..Len(items) : items[i].ID = ctxOp.id /\ items[i].TokenCount = 1
    /\ Len(items) = 2
    /\ currentTokens = 2

\* C4: an optimize pass evicts no essential item: the essential items before
\* and after the pass are the same, also when the total still exceeds the
\* budget, and when every item is essential the item count is unchanged.
C4_EssentialKept ==
    pass.ran =>
        /\ EssentialSet(items) = EssentialSet(pass.before)
        /\ \A k \in 1..Len(pass.evicted) : ~pass.evicted[k].IsEssential
        /\ NonEssential(pass.before) = {} => Len(items) = Len(pass.before)

\* A pass ran over essential items only and left the total over the budget.
C4_Witness ==
    /\ pass.ran
    /\ Len(items) >= 2
    /\ NonEssential(items) = {}
    /\ NonEssential(pass.before) = {}
    /\ currentTokens > maxTokens

\* C5: when a pass ends the total is at most 80% of the budget or no
\* non-essential item remains; so after AddContext or SetMaxTokens the total
\* exceeds the budget only if every held item is essential.
C5_WithinBudget ==
    /\ pass.ran =>
          \/ currentTokens <= (maxTokens * 8) \div 10
          \/ NonEssential(items) = {}
    /\ ctxOp.op \in {"AddContext", "SetMaxTokens"} =>
          (currentTokens > maxTokens => NonEssential(items) = {})

\* A pass evicted something and ended at or under 80% of the budget with a
\* non-essential item still held.
C5_Witness ==
    /\ pass.ran
    /\ pass.evicted # <<>>
    /\ pass.tokens > maxTokens
    /\ currentTokens <= (maxTokens * 8) \div 10
    /\ NonEssential(items) # {}

\* C6: a pass evicts non-essential items in ascending order of aged
\* relevance: no evicted item has a strictly higher relevance than a
\* surviving non-essential item or than an item evicted after it.
C6_LeastRelevantFirst ==
    pass.ran =>
        /\ \A k \in 1..Len(pass.evicted) : \A i \in NonEssential(items) :
              ~RatLess(items[i].Relevance, pass.evicted[k].Relevance)
        /\ \A k, l \in 1..Len(pass.evicted) :
              k < l => ~RatLess(pass.evicted[l].Relevance, pass.evicted[k].Relevance)

\* Three non-essential items of aged relevance 0.9, 0.6 and 0.3, one eviction:
\* the 0.3 item went.
C6_Witness ==
    /\ pass.ran
    /\ Len(pass.before) = 3
    /\ NonEssential(pass.before) = {1, 2, 3}
    /\ Len(pass.evicted) = 1
    /\ pass.evicted[1].Relevance = Rat(3, 10)
    /\ {items[i].Relevance : i \in 1..Len(items)} = {Rat(9, 10), Rat(6, 10)}

\* C7: a pass that follows another pass, under the same budget and with no
\* insertion in between, leaves the held items and the total as it found them.
C7_Idempotent ==
    (pass.ran /\ pass.streak >= 2) =>
        /\ UnscoredSet(items) = UnscoredSet(pass.before)
        /\ currentTokens = pass.tokens
        /\ pass.evicted = <<>>

\* A second pass in a row over a non-essential item that the first pass kept.
C7_Witness ==
    /\ pass.ran
    /\ pass.streak >= 2
    /\ ctxOp.op = "optimize"
    /\ NonEssential(items) # {}
    /\ currentTokens > 0

---------------------------------------------------------------------------
(* Properties of completion. *)

\* The command the line being edited starts with, and the arguments typed.
LineCommand == commands[line[1]]
LineArgs == Tail(line)
AtCommand == compOp = "Tab" /\ Len(line) >= 1 /\ line[1] \in DOMAIN commands

\* C8: for a command whose handler implements Completer, the candidates
\* offered when the user asks for completion are those Complete returns for
\* the arguments typed so far, Complete having been called with them.
C8_CompleteWithTypedArgs ==
    (AtCommand /\ ImplementsCompleter(LineCommand.Handler)) =>
        /\ LineArgs \in completeCalls
        /\ offered = Range(Complete(LineCommand.Handler, LineArgs))

\* The flags of a command registered with a builder.
FlagsOf(cmd) ==
    UNION {DOMAIN cmd.Completions[pos].Flags.m : pos \in DOMAIN cmd.Completions}

\* C9: for a command registered with a CompletionBuilder, completing the
\* argument at position p offers the options declared for position p, for
\* every declared position, and offers every flag at every position.
C9_OptionsAtTheirPosition ==
    (/\ AtCommand
     /\ ~ImplementsCompleter(LineCommand.Handler)
     /\ DOMAIN LineCommand.Completions # {}) =>
        LET p == Len(LineArgs)
        IN  /\ p \in DOMAIN LineCommand.Completions =>
                  Range(LineCommand.Completions[p].Options) \subseteq offered
            /\ FlagsOf(LineCommand) \subseteq offered

\* C10: after Build, every flag added to the builder is, with its option
\* list, in the Flags map of every positional entry of the map returned,
\* whatever the order of the additions.
C10_FlagsUnderEveryPosition ==
    cbOp = "Build" =>
        \A pos \in DOMAIN cb.completions :
            \A f \in DOMAIN cb.flags :
                /\ ~cb.completions[pos].Flags.isNil
                /\ f \in DOMAIN cb.completions[pos].Flags.m
                /\ cb.completions[pos].Flags.m[f] = cb.flags[f]

\* Build was called on a builder with positions 0 and 1 and two flags.
C10_Witness ==
    /\ cbOp = "Build"
    /\ DOMAIN cb.completions = {0, 1}
    /\ Cardinality(DOMAIN cb.flags) = 2

\* The subtree of a command in the completion tree, as the set of the paths
\* below the command's item (the command's own item is the empty path).
Subtree(tree, name) ==
    {Tail(p) : p \in {q \in tree : q[1] = name}}

\* The paths each source of completion holds for a command.
CompleterPaths(cmd) ==
    {<<>>} \cup {<<o>> : o \in Range(Complete(cmd.Handler, <<>>))}
StaticPaths(cmd) ==
    {Tail(p) : p \in buildStaticCompletion(cmd.Name, cmd)}
LegacyTableNames == {W("intel"), W("show"), W("set")}
LegacyPaths(cmd) ==
    {Tail(p) : p \in buildLegacyCompletion(cmd.Name)}

\* C11: the completion tree holds, for each registered command, the paths of
\* exactly one source: the handler's Completer if it has one (also when the
\* command has builder completions), else its builder completions if there
\* are any, else the table entry of intel, show or set, else the bare item.
C11_OneSourceByPriority ==
    completer.built =>
        \A n \in DOMAIN commands :
            LET cmd == commands[n]
                sub == Subtree(completer.tree, n)
            IN  IF ImplementsCompleter(cmd.Handler)
                THEN sub = CompleterPaths(cmd)
                ELSE IF DOMAIN cmd.Completions # {}
                THEN sub = StaticPaths(cmd)
                ELSE IF n \in LegacyTableNames
                THEN sub = LegacyPaths(cmd) /\ sub # {<<>>}
                ELSE sub = {<<>>}

\* The tree was built over a command that has both a Completer and builder
\* completions, next to a plain command of the table.
C11_Witness ==
    /\ completer.built
    /\ \E n \in DOMAIN commands :
          /\ ImplementsCompleter(commands[n].Handler)
          /\ DOMAIN commands[n].Completions # {}
          /\ StaticPaths(commands[n]) \cap CompleterPaths(commands[n]) = {<<>>}
    /\ \E n \in DOMAIN commands :
          /\ n \in LegacyTableNames
          /\ ~ImplementsCompleter(commands[n].Handler)
          /\ DOMAIN commands[n].Completions = {}

---------------------------------------------------------------------------
(* Properties of the query path. *)

\* The chat results of a query that were errors queryModel retried.
Retried(q) ==
    IF q.pc = "done" THEN SubSeq(q.outcomes, 1, Len(q.outcomes) - 1)
    ELSE q.outcomes
LastOutcome(q) == q.outcomes[Len(q.outcomes)]

\* C12: a query makes at most 3 chat attempts; every attempt but the last
\* ended in a retryable error and was followed by a wait of that kind's
\* delay; the query returns the first response, or a non-retryable error at
\* once, or the error of the third failed attempt.
C12_AtMostThreeAttempts ==
    /\ Len(qm.outcomes) <= 3
    /\ qm.pc = "chat" => Len(qm.outcomes) < 3 /\ qm.ret = NoReturn
    /\ \A k \in 1..Len(Retried(qm)) :
          /\ Retried(qm)[k] # ChatOK
          /\ RetryableError(HandleError(Retried(qm)[k]))
    /\ qm.slept = [k \in 1..Len(Retried(qm)) |->
                      GetRetryDelay(HandleError(Retried(qm)[k]))]
    /\ qm.pc = "done" =>
          IF LastOutcome(qm) = ChatOK THEN qm.ret = [kind |-> "ok"]
          ELSE /\ qm.ret = [kind |-> "error", err |-> HandleError(LastOutcome(qm))]
               /\ \/ ~RetryableError(qm.ret.err)
                  \/ Len(qm.outcomes) = 3

\* A query returned the retryable error of its third attempt, having waited
\* twice.
C12_Witness ==
    /\ qm.pc = "done"
    /\ Len(qm.outcomes) = 3
    /\ qm.ret.kind = "error"
    /\ RetryableError(qm.ret.err)
    /\ Len(qm.slept) = 2

\* A chat error that is a refused connection or an expired deadline.
IsConnectionRefused(errStr) == Has(errStr, "connection refused")
IsDeadlineExceeded(errStr) == Has(errStr, "deadline exceeded")

\* C13: a chat that fails with a refused connection or an expired deadline is
\* classified as the retryable connection-refused or timeout kind of network
\* error, so the query returns such an error only from its third attempt.
C13_TransientErrorsRetried ==
    \A k \in 1..Len(qm.outcomes) :
        (IsConnectionRefused(qm.outcomes[k]) \/ IsDeadlineExceeded(qm.outcomes[k])) =>
            /\ HandleError(qm.outcomes[k]).Type = ErrorTypeNetwork
            /\ HandleError(qm.outcomes[k]).Code \in {"connection_refused", "timeout"}
            /\ RetryableError(HandleError(qm.outcomes[k]))
            /\ (qm.pc = "done" /\ k = Len(qm.outcomes)) => k = 3

---------------------------------------------------------------------------
(* Properties of model selection. *)

\* The catalog entry of a model name.
CatalogEntry(name) ==
    RecommendedModels[CHOOSE k \in 1..Len(RecommendedModels) :
                         RecommendedModels[k].Name = name]

\* C14: the model AutoSelectModel returns needs no more RAM than the system
\* RAM figure the call worked with, for every preference list and every
\* figure from 0 GB upward.
C14_SelectedModelFits ==
    sel.called => CatalogEntry(sel.result).MinRAM <= sel.systemRAM

\* A preference that, lower-cased, is a keyword of the specialty.
IsKeywordOf(pref, specialty) == ToLower(pref) \in Keywords(specialty)
IsKeyword(pref) == \E sp \in Specialties : IsKeywordOf(pref, sp)
\* A preference that, lower-cased, contains a keyword of the specialty.
HoldsKeywordOf(pref, specialty) ==
    \E k \in Keywords(specialty) : Contains(ToLower(pref), k)

\* C19 as the code has it: a preference selects a specialty only when,
\* lower-cased, it equals one of the specialty's keywords, the last such
\* preference deciding; exactly the models of that specialty receive the +8
\* bonus, and preferences that are no keyword leave the result as it is
\* without them.
C19_KeywordEquality ==
    sel.called =>
        /\ \A k \in 1..Len(RecommendedModels) :
              sel.scores[k].matching =
                 IF \E i \in 1..Len(sel.preferences) :
                       /\ IsKeywordOf(sel.preferences[i], RecommendedModels[k].Specialty)
                       /\ \A j \in (i + 1)..Len(sel.preferences) :
                             ~IsKeyword(sel.preferences[j])
                 THEN 8 ELSE 0
        /\ (\A i \in 1..Len(sel.preferences) : ~IsKeyword(sel.preferences[i])) =>
              sel.result = AutoSelectModelOf(<<>>, sel.systemRAM)

\* A call with "Coding" followed by "coding tasks": the coding models have the
\* bonus, from the first preference, and the call returns qwen2.5:3b.
C19_Witness ==
    /\ sel.called
    /\ sel.preferences = <<<<"C", "oding">>, <<"c", "oding", " tasks">>>>
    /\ sel.systemRAM >= 4
    /\ \A k \in 1..Len(RecommendedModels) :
          RecommendedModels[k].Specialty = SpecialtyCoding =>
              sel.scores[k].matching = 8
    /\ sel.result = "qwen2.5:3b"

\* C19 as stated: a preference that contains a keyword of a specialty selects
\* that specialty, and the models of the specialty receive the +8 bonus.
C19_SubstringMatching ==
    (sel.called /\ Len(sel.preferences) = 1) =>
        \A k \in 1..Len(RecommendedModels) :
            HoldsKeywordOf(sel.preferences[1], RecommendedModels[k].Specialty) =>
                sel.scores[k].matching = 8

---------------------------------------------------------------------------
(* Properties of the console loop. *)

\* C15: after a line whose command is unknown or whose handler returned an
\* error, the error is reported and the loop is back at reading; the loop has
\* ended only after exit or quit in any letter case, an interrupt, or the end
\* of input.
C15_LoopGoesOn ==
    /\ (con.last.kind = "line" /\ ReachesExecute(con.last.input)) =>
          /\ con.pc = "reading"
          /\ lastCall = CallOf("Execute", con.last.input[1], Tail(con.last.input))
          /\ ret.kind = "error" => con.reported = ret.msg /\ con.reported # <<>>
    /\ con.pc = "ended" =>
          \/ con.last.kind \in {"interrupt", "eof"}
          \/ /\ con.last.kind = "line"
             /\ con.last.input # <<>>
             /\ ToLower(con.last.input[1]) \in BuiltinExit

\* The loop is reading again after a registered command's handler returned
\* an error.
C15_Witness ==
    /\ con.pc = "reading"
    /\ con.last.kind = "line"
    /\ ReachesExecute(con.last.input)
    /\ invoked # <<>>
    /\ ret.kind = "error"
    /\ con.reported = ret.msg

---------------------------------------------------------------------------
(* Properties of the stores. *)

\* Two goroutines are both at their access to the map of a store, one of
\* them to write it.
MapRace(s) ==
    \E g, h \in Goroutines :
        /\ g # h
        /\ s.pc[g] = "in"
        /\ s.pc[h] = "in"
        /\ WritesMap(s.call[g])

\* A goroutine waits for the lock of a store while no goroutine that holds
\* it is on its way to release it.
StuckAtLock(s) ==
    \E g \in Goroutines :
        /\ s.pc[g] = "acquire"
        /\ ~(IF WritesMap(s.call[g]) THEN CanLock(s) ELSE CanRLock(s))
        /\ ~\E h \in Goroutines \ {g} :
              /\ h = s.writer \/ h \in s.readers
              /\ s.pc[h] \in {"in", "out"}

\* C16: in both stores, State and Config, no write of the map is concurrent
\* with another read or write of it, and no call waits for a lock that
\* nobody is going to release.
C16_MapGuarded ==
    /\ ~MapRace(state)
    /\ ~StuckAtLock(state)
    /\ ~MapRace(config)
    /\ ~StuckAtLock(config)

\* The same for State alone, whose methods take the lock.
StateGuarded ==
    /\ ~MapRace(state)
    /\ ~StuckAtLock(state)
    /\ state.writer # 0 => state.readers = {}

---------------------------------------------------------------------------
(* Properties of the progress indicators. *)

\* Two accesses that race: the same field, one of them a write, and not
\* both atomic.
Races(a, b) ==
    /\ a.field = b.field
    /\ a.field # "none"
    /\ a.kind = "write" \/ b.kind = "write"
    /\ ~(a.atomic /\ b.atomic)

\* C17: in no state are a caller and the animation goroutine of an indicator
\* about to make racing accesses: every field they share (the running flag,
\* the counters, the message) is reached by atomic operations only, or
\* handed over through the done channel.
C17_NoUnsynchronizedAccess ==
    /\ ~Races(SpinnerCallerAccess, SpinnerSpinAccess)
    /\ \A a \in CounterCallerAccesses : ~Races(a, CounterDisplayAccess)

\* The same for the counter alone.
CounterRaceFree ==
    \A a \in CounterCallerAccesses : ~Races(a, CounterDisplayAccess)

---------------------------------------------------------------------------
(* Properties of the Ollama manager. *)

\* The call in progress has spawned `ollama serve` and the endpoint answers.
ServiceAnswersAfterSpawn == om.spawned /\ om.service = "up"

\* The call has returned nil with the service marked running.
ReturnedReady == om.pc = "returned" /\ om.result = "nil" /\ om.isRunning

\* C18: once `ollama serve` is spawned, if the service answers at any time
\* after the spawn, the call of EnsureOllamaAvailable eventually returns nil
\* with the service marked running.
C18_EventuallyReady == ServiceAnswersAfterSpawn ~> ReturnedReady

\* The service answered within the sleep and the call returned nil.
ReadyWithinSleep ==
    om.spawned /\ ReturnedReady

---------------------------------------------------------------------------
(* Properties of the command history. *)

\* C20: after n calls of AddAction, the history fragment updateContextManager
\* adds lists the min(n, ContextDepth) most recent actions, in call order.
C20_HistoryHoldsContextDepth ==
    (intel.op = "updateContextManager" /\ Len(intel.all) > 0) =>
        intel.history =
            HistoryLines(LastN(intel.all, Min(Len(intel.all), intel.ContextDepth)))

\* AddAction itself keeps the min(n, ContextDepth) most recent actions.
RecentActionsHoldContextDepth ==
    intel.RecentActions =
        LastN(intel.all, Min(Len(intel.all), intel.ContextDepth))

\* The fragment lists the three most recent of the kept actions at most.
HistoryHoldsThree ==
    (intel.op = "updateContextManager" /\ Len(intel.all) > 0) =>
        intel.history =
            HistoryLines(LastN(intel.all,
                Min(Min(Len(intel.all), intel.ContextDepth), HistoryLimit)))

---------------------------------------------------------------------------
(* Properties of the string utilities. *)

FirstChars(chars, n) == SubSeq(chars, 1, n)
LastChars(chars, n) == SubSeq(chars, Len(chars) - n + 1, Len(chars))

IsASCII(chars) == \A k \in 1 .. Len(chars) : Len(BytesOf(chars[k])) = 1

\* C21: MaskString(s, p, q) is the first p characters of s, then "...",
\* then the last q characters of s when len(s) >= p+q, and exactly "..."
\* when len(s) < p+q.
C21_MaskKeepsEnds ==
    util.fn = "MaskString" =>
        IF Len(Encode(util.s)) >= util.prefixLen + util.suffixLen
        THEN /\ util.prefixLen \in 0 .. Len(util.s)
             /\ util.suffixLen \in 0 .. Len(util.s)
             /\ util.masked = Encode(FirstChars(util.s, util.prefixLen)) \o Dots
                                \o Encode(LastChars(util.s, util.suffixLen))
        ELSE util.masked = Dots

\* The same for ASCII strings and lengths that are not negative.
MaskKeepsEndsASCII ==
    (/\ util.fn = "MaskString"
     /\ IsASCII(util.s)
     /\ util.prefixLen >= 0
     /\ util.suffixLen >= 0) =>
        IF Len(util.s) >= util.prefixLen + util.suffixLen
        THEN util.masked = Encode(FirstChars(util.s, util.prefixLen)) \o Dots
                             \o Encode(LastChars(util.s, util.suffixLen))
        ELSE util.masked = Dots

LowerWord(chars) == [k \in 1 .. Len(chars) |-> LowerChar(chars[k])]
UpperWord(chars) == [k \in 1 .. Len(chars) |-> UpperChar(chars[k])]
PascalWord(chars) ==
    <<UpperChar(chars[1])>> \o LowerWord(Tail(chars))

\* C22: GenerateCaseVariations(w) of a non-empty word is the set of its
\* all-lowercase form, its form with the first letter upper and the rest
\* lower, and its all-uppercase form, whatever the letter case of w.
C22_ThreeCasings ==
    (util.fn = "GenerateCaseVariations" /\ util.s # <<>>) =>
        util.variations = {Encode(LowerWord(util.s)), Encode(PascalWord(util.s)),
                           Encode(UpperWord(util.s))}

\* The same for words that begin with an ASCII character.
ThreeCasingsASCIIFirst ==
    (/\ util.fn = "GenerateCaseVariations"
     /\ util.s # <<>>
     /\ IsASCII(<<util.s[1]>>)) =>
        util.variations = {Encode(LowerWord(util.s)), Encode(PascalWord(util.s)),
                           Encode(UpperWord(util.s))}

---------------------------------------------------------------------------
(* Properties of the configuration file. *)

\* C23: after SaveToFile and LoadFromFile of the same file, Get of every
\* saved key returns the saved value and the loaded Config holds no key
\* that was not saved.
C23_RoundTrip ==
    (cfg.op = "LoadFromFile" /\ ~cfg.err) =>
        /\ \A key \in DOMAIN cfg.saved :
              key \in DOMAIN cfg.loaded /\ cfg.loaded[key] = cfg.saved[key]
        /\ DOMAIN cfg.loaded \subseteq DOMAIN cfg.saved

\* A float64 without a fraction, alone or in a list.
HoldsWholeFloat(value) ==
    \/ value.type = "float64" /\ value.v[3] = "0"
    \/ /\ value.type = "[]interface {}"
       /\ \E k \in 1 .. Len(value.elems) :
             value.elems[k].type = "float64" /\ value.elems[k].v[3] = "0"

\* The round trip into a Config that held no key of its own, for maps
\* without a float64 that has no fraction.
RoundTripIntoNew ==
    (/\ cfg.op = "LoadFromFile"
     /\ ~cfg.err
     /\ \A key \in DOMAIN cfg.saved : ~HoldsWholeFloat(cfg.saved[key])) =>
        /\ \A key \in DOMAIN cfg.saved :
              key \in DOMAIN cfg.loaded /\ cfg.loaded[key] = cfg.saved[key]
        /\ \A key \in DOMAIN cfg.loaded \ DOMAIN cfg.saved :
              cfg.loaded[key] \in LoaderValues

---------------------------------------------------------------------------
(* Properties of the context manager under all its methods. *)

\* C24: in every state reachable by AddContext, SetMaxTokens, PruneHistory,
\* Clear and BuildPrompt, the running total currentTokens is the sum of
\* TokenCount over the held items.
C24_TotalIsSum == currentTokens = SumTokens(items)

\* PruneHistory dropped an item while another stayed.
C24_Witness ==
    /\ ctxOp.op = "PruneHistory"
    /\ Len(pass.before) = 2
    /\ Len(items) = 1
    /\ currentTokens > 0

\* C25: relevance aging is floored at 0.1 and keeps scores in range: after
\* any number of aging passes no held item's relevance is below 0.1 or
\* above 1.
C25_RelevanceInRange ==
    \A i \in 1..Len(items) :
        /\ ~RatLess(items[i].Relevance, Rat(1, 10))
        /\ ~RatLess(RatOne, items[i].Relevance)

\* The factor of one pass is at least 0.1 and at most 1, and no score
\* exceeds 1.
FactorInRange ==
    /\ \A ty \in ContextTypes : \A age \in 0..MaxHours :
          /\ ~RatLess(ageFactor(ty, age), Rat(1, 10))
          /\ ~RatLess(RatOne, ageFactor(ty, age))
    /\ \A i \in 1..Len(items) : ~RatLess(RatOne, items[i].Relevance)

\* The held item with an id.
ItemOf(id) == items[FirstIndexOf(items, id)]

\* The types BuildPrompt writes, first to last.
PromptOrder ==
    <<ContextTypeSystem, ContextTypeDomain, ContextTypePrompt,
      ContextTypeState, ContextTypeHistory>>
RankOf(contextType) == CHOOSE k \in 1..Len(PromptOrder) : PromptOrder[k] = contextType

\* C27: BuildPrompt(q, .) emits every held fragment that is not user-typed,
\* ordered system > domain > prompt-template > state > history with ties
\* broken by descending relevance, omits the user-typed ones, and ends with
\* "Query: q" followed by "Response:".
C27_PromptOrder ==
    ctxOp.op = "BuildPrompt" =>
        LET sec == prompt.sections
        IN  /\ {sec[k].ID : k \in 1..Len(sec)} =
                  {items[i].ID : i \in {j \in 1..Len(items) :
                                           items[j].Type # ContextTypeUser}}
            /\ \A k, l \in 1..Len(sec) : sec[k].ID = sec[l].ID => k = l
            /\ \A k \in 1..Len(sec) : sec[k].Content = ItemOf(sec[k].ID).Content
            /\ \A k, l \in 1..Len(sec) : k < l =>
                  LET x == ItemOf(sec[k].ID)
                      y == ItemOf(sec[l].ID)
                  IN  /\ RankOf(x.Type) <= RankOf(y.Type)
                      /\ x.Type = y.Type => ~RatLess(x.Relevance, y.Relevance)
            /\ prompt.closing = <<"Query: ", prompt.query, "\n\nResponse:">>

\* A prompt over a state item and a prompt template added after it: the
\* template is written first.
C27_Witness ==
    /\ ctxOp.op = "BuildPrompt"
    /\ Len(items) = 2
    /\ items[1].Type = ContextTypeState
    /\ items[2].Type = ContextTypePrompt
    /\ Len(prompt.sections) = 2
    /\ prompt.sections[1].ID = items[2].ID

\* Two history items of different relevance in one prompt, the fresher first.
PromptTieWitness ==
    /\ ctxOp.op = "BuildPrompt"
    /\ Len(items) = 2
    /\ items[1].Type = ContextTypeHistory
    /\ items[2].Type = ContextTypeHistory
    /\ RatLess(items[1].Relevance, items[2].Relevance)
    /\ prompt.sections[1].ID = items[2].ID

\* Older than 30 minutes at the time of the call.
OlderThanCutoff(item) == (ctxOp.at - item.Timestamp) * ClockUnitMinutes > 30

Goes(item) ==
    item.Type = ContextTypeHistory /\ ~item.IsEssential /\ OlderThanCutoff(item)

RECURSIVE Survivors(_)
Survivors(its) ==
    IF its = <<>> THEN <<>>
    ELSE IF Goes(Head(its)) THEN Survivors(Tail(its))
    ELSE <<Head(its)>> \o Survivors(Tail(its))

\* C28: PruneHistory removes exactly the items that are history-typed,
\* non-essential and older than 30 minutes, subtracts exactly their token
\* counts from the total, and leaves every other item and the order of the
\* survivors unchanged.
C28_PruneFrame ==
    ctxOp.op = "PruneHistory" =>
        /\ items = Survivors(pass.before)
        /\ currentTokens = pass.tokens - (SumTokens(pass.before) - SumTokens(items))

\* A pruning that dropped an old history item and kept an essential history
\* item of the same age.
C28_Witness ==
    /\ ctxOp.op = "PruneHistory"
    /\ Len(pass.before) = 2
    /\ Len(items) = 1
    /\ items[1].Type = ContextTypeHistory
    /\ items[1].IsEssential
    /\ OlderThanCutoff(items[1])
    /\ currentTokens < pass.tokens

\* The items an AddContext handed to optimize, with the scores of the pass.
AgedBefore == updateRelevanceScores(pass.before, ctxOp.at)

\* The inserted item is non-essential and every other non-essential item
\* has a higher score in the pass.
InsertedIsLowest ==
    LET aged == AgedBefore
        n == Len(aged)
    IN  /\ n > 0
        /\ aged[n].ID = ctxOp.id
        /\ ~aged[n].IsEssential
        /\ \A i \in 1..(n - 1) :
              ~aged[i].IsEssential => RatLess(aged[n].Relevance, aged[i].Relevance)

\* C29: when an AddContext of a non-essential item pushes the total over the
\* budget and the item has the lowest relevance among the non-essential
\* items, the optimize pass of that call removes it: no item with the id is
\* held when AddContext returns.
C29_InsertedEvicted ==
    (ctxOp.op = "AddContext" /\ pass.ran /\ InsertedIsLowest) =>
        ctxOp.id \notin HeldIDs

\* An AddContext whose pass evicted the inserted item only, a non-essential
\* item of higher relevance staying.
C29_Witness ==
    /\ ctxOp.op = "AddContext"
    /\ pass.ran
    /\ InsertedIsLowest
    /\ Len(pass.before) >= 2
    /\ Len(pass.evicted) = 1
    /\ NonEssential(items) # {}
    /\ ctxOp.id \notin HeldIDs

---------------------------------------------------------------------------
(* Properties of Initialize. *)

\* Until an Initialize has succeeded, the gated calls return the
\* not-initialized error and issue no model request.
GatedUntilInitialized ==
    (sys.op \in QueryMethods \cup {"handleContext"} /\ ~sys.wasInitialized) =>
        /\ sys.ret \in {NotInitialized, NotInitializedRunStart}
        /\ sys.requests = sys.requestsBefore

\* No model request without a successful Initialize before it.
RequestsAfterSuccess == sys.requests > 0 => sys.succeeded

\* The flag is never cleared.
NeverCleared == sys.everInitialized => sys.initialized

\* An Initialize on an initialized system returns nil and runs no step.
LaterInitializeIdle ==
    (sys.op = "Initialize" /\ sys.wasInitialized) =>
        sys.ret = "nil" /\ sys.steps = <<>>

\* The steps whose failure makes Initialize return an error.
FatalSteps == {"EnsureOllamaAvailable", "ClientFromEnvironment", "ensureModel"}

\* C26 (as amended): the gated calls return a not-initialized error and
\* issue no model request until an Initialize has succeeded; the flag is set
\* only by an Initialize in which EnsureOllamaAvailable, the client creation
\* and, with AutoDownload, ensureModel succeeded, is never cleared, and a
\* later Initialize returns nil without repeating any step.
C26_GatedByInitialize ==
    /\ GatedUntilInitialized
    /\ RequestsAfterSuccess
    /\ NeverCleared
    /\ LaterInitializeIdle
    /\ sys.initialized =>
          /\ sys.setBy # <<>>
          /\ \A k \in 1..Len(sys.setBy) :
                sys.setBy[k].step \in FatalSteps => sys.setBy[k].ok

\* C26 (as stated): the same, with the flag set only after every step of
\* Initialize succeeded.
C26_EveryStepSucceeded ==
    /\ GatedUntilInitialized
    /\ RequestsAfterSuccess
    /\ NeverCleared
    /\ LaterInitializeIdle
    /\ sys.initialized =>
          /\ sys.setBy # <<>>
          /\ \A k \in 1..Len(sys.setBy) : sys.setBy[k].ok

\* A query refused before Initialize, then Initialize, then a query that
\* reached the model, then a second Initialize.
C26_Witness ==
    /\ sys.op = "Initialize"
    /\ sys.wasInitialized
    /\ sys.requests = 1
    /\ Len(sys.setBy) = 4

---------------------------------------------------------------------------
(* Properties of Stop. *)

InStop(g) == ind.pc[g] \in {"store", "send"}

\* C30: every call of Stop returns, whatever the interleaving: before
\* Start, a second time, or concurrently with another Stop.
C30_StopReturns ==
    \A g \in Goroutines : InStop(g) ~> ind.pc[g] = "idle"

\* A Stop that finds the flag clear (before Start, or after another Stop)
\* returns at once, without a send.
StopOnClearFlagReturns ==
    \A g \in Goroutines : ind.noop[g] => ind.returned[g] /\ ~InStop(g)

\* Two calls of Stop are poised at the send and one animation goroutine is
\* there to receive.
TwoSendersOneReceiver ==
    /\ \A g \in Goroutines : ind.pc[g] = "send"
    /\ ind.live = 1

\* A call of Stop waits at the send, no animation goroutine is left and no
\* other call is under way.
SenderLeftBehind ==
    /\ \E g \in Goroutines : ind.pc[g] = "send"
    /\ \A g \in Goroutines : ind.pc[g] \in {"send", "idle"}
    /\ ind.live = 0

====
